---- MODULE Spec2Model ----
(***************************************************************************)
(* Resilience core of the USPTO Final Petition Decisions MCP server:       *)
(* the CircuitBreaker (shared/circuit_breaker.py), and further below the   *)
(* response cache (shared/cache.py) and FPDClient._make_request            *)
(* (api/fpd_client.py).                                                    *)
(*                                                                         *)
(* Time is an integer number of seconds (time.time()).  Every section of   *)
(* code that runs between two suspension points of the asyncio event loop  *)
(* is one action: the bodies of `async with self._lock` contain no await   *)
(* and the lock is therefore always free when a coroutine asks for it.     *)
(***************************************************************************)
EXTENDS Integers, Sequences, FiniteSets, TLC

\* ------------------------------------------------------------------ bounds
MaxThreshold == 3        \* failure_threshold arguments tried: 1..MaxThreshold
MaxRecovery == 2         \* recovery_timeout arguments tried: 1..MaxRecovery
MaxTime == 6             \* the breaker specifications stop the clock here
MaxCallers == 2          \* coroutines that use the breaker under test

Callers == 1..MaxCallers

\* last_failure_time: Optional[float] = None
NoTime == -1

VARIABLES
    cb,            \* the CircuitBreaker under test (its instance attributes)
    now,           \* time.time()
    call_pc,       \* per caller: "idle" or "running" (inside `await func()`)
    call_result,   \* per caller: how its latest call() ended
    streak,        \* observer: wrapped-call failures since the latest success
    half_successes, \* observer: successes since the breaker last became HALF_OPEN
    \* FPDClient
    uspto_circuit_breaker,  \* FPDClient.uspto_circuit_breaker
    cache_manager,          \* FPDClient.cache_manager (its SimpleCache)
    req_pc,        \* per request: "idle", "attempt" (network call in flight),
                   \*              "sleep" (backoff), "done" (returned)
    req_key,       \* per request: its (method, endpoint, kwargs)
    attempt,       \* per request: loop variable of the retry loop
    last_exception, \* per request: local variable last_exception
    result,        \* per request: the dict _make_request returned
    net_attempts,  \* observer: network calls started by the request
    sleeps,        \* observer: backoff sleeps started by the request
    lost,          \* observer: keys whose value was evicted by the capacity
                   \*           bound at the present instant of the clock
    fail_streak,   \* observer: consecutive requests that exhausted their retries
    elapsed        \* observer: number of clock advances of the client clock

VARIABLES
    \* proxy application
    rate_limiter,  \* the rate limiter: per key, timestamps of allowed requests
    download,      \* the /download request being handled, and its response
    exchange,      \* a request on its way through the middleware, and its response
    allowed_log,   \* observer: per request.client, when its requests were
                   \*           allowed, as far back as one window
    advances,      \* observer: number of clock advances of the proxy clock
    \* hybrid extraction
    env,           \* the process environment (variables and feature flags)
    extraction,    \* the extract_document_content_hybrid call in progress
    \* pure functions under test
    naming,        \* the generate_enhanced_filename call: arguments, locals, result
    building       \* the _build_convenience_query call: arguments, locals, result

VARIABLES
    probing,       \* observer: the callers whose wrapped call in flight passed
                   \*           the state check of a HALF_OPEN breaker
    objects,       \* the CircuitBreaker objects of an FPDClient, by identity
    pair_pc,       \* per breaker of the FPDClient: "running" (inside the
                   \*   function wrapped by call()) or how the latest call ended
    ocr,           \* the extract_with_mistral_ocr call: arguments, locals, result
    simple_cache,  \* the SimpleCache under test
    cache_op,      \* observer: the latest operation on it
    cache_ops,     \* observer: the number of operations so far
    last_use,      \* observer: per key, the number of the latest set or get hit
    keyed,         \* a CacheManager.set and a CacheManager.get: the two calls,
                   \*   the key stored under and whether the get found it
    uspto_semaphore, \* FPDClient.uspto_semaphore
    gate,          \* per concurrent _make_request call: position, loop
                   \*   variables, result, and (observer) how it ended
    gate_client    \* the breaker and the cache entry these calls share

breakerVars == <<cb, call_pc, call_result, streak, half_successes>>

clientVars == <<uspto_circuit_breaker, cache_manager, req_pc, req_key, attempt,
                last_exception, result, net_attempts, sleeps, lost,
                fail_streak, elapsed>>

proxyVars == <<rate_limiter, download, allowed_log, advances, exchange>>

\* the components a breaker or client step does not touch
extractVars == <<env, extraction>>

pureVars == <<naming, building>>

probeVars == <<probing>>

\* the components added for concurrency, the second breaker and the cache
pairVars == <<objects, pair_pc>>

ocrVars == <<ocr>>

cacheVars == <<simple_cache, cache_op, cache_ops, last_use>>

keyVars == <<keyed>>

gateVars == <<uspto_semaphore, gate, gate_client>>

lateVars == <<probeVars, pairVars, ocrVars, cacheVars, keyVars, gateVars>>

otherVars == <<proxyVars, extractVars, pureVars, lateVars>>

vars == <<cb, now, call_pc, call_result, streak, half_successes,
          uspto_circuit_breaker, cache_manager, req_pc, req_key, attempt,
          last_exception, result, net_attempts, sleeps, lost,
          fail_streak, elapsed, otherVars,
          keyed, uspto_semaphore, gate, gate_client>>

\* ------------------------------------------------- CircuitBreaker (pure part)
CircuitBreaker(F, RT) ==
    [failure_threshold |-> F, recovery_timeout |-> RT,
     failure_count |-> 0, success_count |-> 0,
     last_failure_time |-> NoTime, state |-> "CLOSED"]

\* faulty variant: the timeout counts as elapsed at exactly recovery_timeout
should_attempt_reset_inclusive(b, t) ==
    IF b.last_failure_time = NoTime THEN TRUE
    ELSE t - b.last_failure_time >= b.recovery_timeout

should_attempt_reset(b, t) ==
    IF b.last_failure_time = NoTime THEN TRUE
    ELSE t - b.last_failure_time > b.recovery_timeout

\* faulty variant: success_count survives the opening
open_circuit_keeps_successes(b, t) ==
    [b EXCEPT !.state = "OPEN", !.last_failure_time = t]

open_circuit(b, t) ==
    [b EXCEPT !.state = "OPEN", !.success_count = 0, !.last_failure_time = t]

\* faulty variant: failure_count survives the closing
close_circuit_keeps_failures(b) ==
    [b EXCEPT !.state = "CLOSED", !.success_count = 0,
              !.last_failure_time = NoTime]

close_circuit(b) ==
    [b EXCEPT !.state = "CLOSED", !.failure_count = 0, !.success_count = 0,
              !.last_failure_time = NoTime]

\* call(), lines 74-87: the check made under the lock.
call_rejects(b, t) == b.state = "OPEN" /\ ~should_attempt_reset(b, t)

call_check(b, t) ==
    LET b1 == IF b.state = "OPEN" THEN [b EXCEPT !.state = "HALF_OPEN"] ELSE b
    IN  IF b1.state = "HALF_OPEN" /\ b1.success_count >= 3
        THEN close_circuit(b1) ELSE b1

\* faulty variant: closes after two successes
on_success_closes_early(b) ==
    IF b.state = "HALF_OPEN"
    THEN LET b1 == [b EXCEPT !.success_count = @ + 1]
         IN  IF b1.success_count >= 2 THEN close_circuit(b1) ELSE b1
    ELSE IF b.state = "CLOSED" /\ b.failure_count > 0
         THEN [b EXCEPT !.failure_count = 0] ELSE b

on_success(b) ==
    IF b.state = "HALF_OPEN"
    THEN LET b1 == [b EXCEPT !.success_count = @ + 1]
         IN  IF b1.success_count >= 3 THEN close_circuit(b1) ELSE b1
    ELSE IF b.state = "CLOSED" /\ b.failure_count > 0
         THEN [b EXCEPT !.failure_count = 0] ELSE b

\* faulty variant: opens only above the threshold
on_failure_strict(b, t) ==
    LET b1 == [b EXCEPT !.failure_count = @ + 1, !.last_failure_time = t]
    IN  IF b1.state = "HALF_OPEN" THEN open_circuit(b1, t)
        ELSE IF b1.state = "CLOSED" /\ b1.failure_count > b1.failure_threshold
             THEN open_circuit(b1, t) ELSE b1

on_failure(b, t) ==
    LET b1 == [b EXCEPT !.failure_count = @ + 1, !.last_failure_time = t]
    IN  IF b1.state = "HALF_OPEN" THEN open_circuit(b1, t)
        ELSE IF b1.state = "CLOSED" /\ b1.failure_count >= b1.failure_threshold
             THEN open_circuit(b1, t) ELSE b1

\* ------------------------------------------------------------ FPDClient data
CacheMaxSize == 1        \* maxsize of the cache under test (FPDClient: 100)
MaxElapses == 1          \* clock advances of the client specification

RETRY_ATTEMPTS == 3
USPTO_FAILURE_THRESHOLD == 5
USPTO_RECOVERY_TIMEOUT == 60
DEFAULT_CACHE_TTL_SECONDS == 600

\* requests are issued one at a time: one coroutine inside _make_request
Procs == {1}
\* distinct (method, endpoint, kwargs): one more than the cache can hold
Keys == 1..(CacheMaxSize + 1)
\* the clock advances by a recovery timeout or by a cache lifetime
TimeSteps == {USPTO_RECOVERY_TIMEOUT, DEFAULT_CACHE_TTL_SECONDS}

\* A response dict, reduced to the keys the client looks at or writes:
\* payload stands for the data keys, error for the "error" key ("absent",
\* "falsy" or "truthy"), status_code 0 for no "status_code" key.
Dict(payload, error) ==
    [payload |-> payload, error |-> error, status_code |-> 0,
     cached |-> FALSE, circuit_open |-> FALSE]

EmptyDict == Dict("absent", "absent")
None == Dict("None", "absent")

\* JSON bodies of a 2xx answer
Bodies == {Dict("P1", "absent"), Dict("P1", "falsy"), Dict("P1", "truthy"),
           EmptyDict}

\* statuses for which raise_for_status() raises
HttpErrorStatuses == {404, 503}

\* bool(result)
Truthy(d) == d # EmptyDict /\ d # None

\* faulty variant: the "error" key is never seen
GetError_never(d) == FALSE

\* result.get("error") is truthy
GetError(d) == d.error = "truthy"

\* faulty variant: the status code argument is ignored
format_error_response_fixed(status_code) ==
    [payload |-> "absent", error |-> "truthy", status_code |-> 500,
     cached |-> FALSE, circuit_open |-> FALSE]

format_error_response(status_code) ==
    [payload |-> "absent", error |-> "truthy", status_code |-> status_code,
     cached |-> FALSE, circuit_open |-> FALSE]

NoException == [kind |-> "none", status_code |-> 0]
HTTPStatusError(status_code) == [kind |-> "http", status_code |-> status_code]
TimeoutException == [kind |-> "timeout", status_code |-> 0]
OtherException == [kind |-> "other", status_code |-> 0]

\* faulty variant: the kind of the last exception is ignored
AllRetriesFailed_untyped(exc) == format_error_response(500)

\* _execute_request after the loop ("All retries failed")
AllRetriesFailed(exc) ==
    IF exc.kind = "timeout" THEN format_error_response(408)
    ELSE IF exc.kind = "http" THEN format_error_response(exc.status_code)
    ELSE format_error_response(500)

\* the copy of a cached value the fallback returns
Annotate(d) == [d EXCEPT !.cached = TRUE, !.circuit_open = TRUE]

\* ------------------------------------------------------------- SimpleCache
\* CacheManager uses cachetools.TTLCache when it is installed and SimpleCache
\* otherwise; both expire an entry ttl seconds after it was set and drop the
\* least recently used entry when over maxsize.  SimpleCache is modelled.
Absent == [present |-> FALSE, value |-> None, expiry_time |-> 0]

\* an empty SimpleCache; keys are the keys that will be tried on it
SimpleCacheOf(keys, maxsize, ttl) ==
    [maxsize |-> maxsize, ttl |-> ttl,
     cache |-> [k \in keys |-> Absent], access_order |-> <<>>]

SimpleCache(maxsize, ttl) == SimpleCacheOf(Keys, maxsize, ttl)

Remove(order, k) == SelectSeq(order, LAMBDA x : x # k)

Size(cache) == Cardinality({k \in DOMAIN cache : cache[k].present})

\* key in self._cache and time.time() < expiry_time
Fresh(c, k, t) == c.cache[k].present /\ t < c.cache[k].expiry_time

\* faulty variant: the expiry comparison is inverted
SimpleCache_get_expired(c, k, t) ==
    IF c.cache[k].present /\ t > c.cache[k].expiry_time
    THEN c.cache[k].value ELSE None

\* SimpleCache.get: the value returned
SimpleCache_get(c, k, t) == IF Fresh(c, k, t) THEN c.cache[k].value ELSE None

\* faulty variant: a hit does not count as a use
SimpleCache_touch_without_move(c, k, t) ==
    IF ~c.cache[k].present \/ Fresh(c, k, t) THEN c
    ELSE [c EXCEPT !.cache[k] = Absent, !.access_order = Remove(@, k)]

\* SimpleCache.get: the cache afterwards
SimpleCache_touch(c, k, t) ==
    IF ~c.cache[k].present THEN c
    ELSE IF Fresh(c, k, t)
         THEN [c EXCEPT !.access_order = Append(Remove(@, k), k)]
         ELSE [c EXCEPT !.cache[k] = Absent, !.access_order = Remove(@, k)]

RECURSIVE Evict(_)
Evict(c) ==
    IF Size(c.cache) > c.maxsize
    THEN Evict([c EXCEPT !.cache[Head(c.access_order)] = Absent,
                         !.access_order = Tail(@)])
    ELSE c

\* faulty variant: the entry expires at once
SimpleCache_set_without_ttl(c, k, value, t) ==
    Evict([c EXCEPT
             !.cache[k] = [present |-> TRUE, value |-> value, expiry_time |-> t],
             !.access_order = Append(Remove(@, k), k)])

SimpleCache_set(c, k, value, t) ==
    Evict([c EXCEPT
             !.cache[k] = [present |-> TRUE, value |-> value,
                           expiry_time |-> t + c.ttl],
             !.access_order = Append(Remove(@, k), k)])

\* ------------------------------------------------------------ CacheManager
CacheManager(maxsize, ttl) == [ttl |-> ttl, cache |-> SimpleCache(maxsize, ttl)]

CacheManager_get(m, k, t) == SimpleCache_get(m.cache, k, t)

CacheManager_touch(m, k, t) == [m EXCEPT !.cache = SimpleCache_touch(@, k, t)]

CacheManager_set(m, k, res, t) ==
    IF GetError(res) THEN m
    ELSE [m EXCEPT !.cache = SimpleCache_set(@, k, res, t)]

\* FPDClient.__init__
\* ----------------------------------------------- proxy: rate limiter, data
MaxAdvances == 2         \* clock advances of the proxy specification

USPTO_MAX_DOWNLOADS_PER_WINDOW == 5
USPTO_RATE_LIMIT_WINDOW_SECONDS == 10

\* request.client of the requests tried: a remote host, and no client address
RequestClients == {"203.0.113.7", "None"}

\* faulty variant: every request is counted under one key
client_ip_shared(client) == "unknown"

\* client_ip = request.client.host if request.client else "unknown"
client_ip(client) == IF client = "None" THEN "unknown" ELSE client

ClientKeys == {client_ip(client) : client \in RequestClients}

\* the clock advances by a second or by a whole window
WindowSteps == {1, USPTO_RATE_LIMIT_WINDOW_SECONDS}

\* rate_limiter: per key, the timestamps of the requests it allowed
RateLimiter == [key \in ClientKeys |-> << >>]

\* timestamps older than the window are purged on each check
Purge(requests, t) ==
    SelectSeq(requests, LAMBDA ts : t - ts <= USPTO_RATE_LIMIT_WINDOW_SECONDS)

\* the answer of is_allowed(key)
is_allowed(rl, key, t) == Len(Purge(rl[key], t)) < USPTO_MAX_DOWNLOADS_PER_WINDOW

\* the limiter after is_allowed(key): an allowed check appends its timestamp
is_allowed_effect(rl, key, t) ==
    [rl EXCEPT ![key] = IF is_allowed(rl, key, t)
                        THEN Append(Purge(@, t), t) ELSE Purge(@, t)]

\* when the oldest timestamp in the window leaves it
get_reset_time(rl, key, t) ==
    IF rl[key] = << >> THEN t
    ELSE Head(rl[key]) + USPTO_RATE_LIMIT_WINDOW_SECONDS

\* ------------------------------------------------- proxy: /download, data
\* petition_result of the lookup, by what the handler finds in it
\* (payload of a dict without "error"):
\*   "no_bag"   petitionDecisionDataBag missing or empty
\*   "no_doc"   no document with the requested identifier
\*   "no_pdf"   the document has no download option of type PDF
\*   "no_url"   the PDF option has no download URL
\*   "pdf"      everything is there
PetitionPayloads == {"no_bag", "no_doc", "no_pdf", "no_url", "pdf"}

\* what get_petition_by_id can return: a petition, the passed-through error
\* of a 4xx answer, the error after the retries were used up, the error of an
\* open circuit without a cached value
PetitionResults ==
    {Dict(payload, "absent") : payload \in PetitionPayloads}
        \cup {format_error_response(404), format_error_response(503)}
        \cup {AllRetriesFailed(exc) :
                  exc \in {TimeoutException, OtherException, HTTPStatusError(503)}}

\* statuses the upstream answers the PDF fetch with
FetchStatuses == {200, 403, 500}

\* faulty variant: Retry-After is not clamped
retry_after_unclamped(rl, key, t) == get_reset_time(rl, key, t) - t

\* remaining_time = max(1, int(rate_limiter.get_reset_time(client_ip) - time.time()))
retry_after(rl, key, t) ==
    IF get_reset_time(rl, key, t) - t > 1 THEN get_reset_time(rl, key, t) - t ELSE 1

\* an HTTP response as the client of the proxy sees it
\*   body: "json" (error or status document), "pdf" (the whole document),
\*         "aborted" (the stream broke off), "none"
Response(status_code, body) ==
    [status_code |-> status_code, body |-> body, retry_after |-> 0,
     remaining_requests |-> -1]

NoResponse == Response(0, "none")

\* JSONResponse(status_code=429, ...)
RateLimitExceeded(seconds) ==
    [Response(429, "json") EXCEPT !.retry_after = seconds,
                                  !.remaining_requests = 0]

\* faulty variant: every error of the lookup is reported as upstream failure
lookup_status_all_502(petition_result) ==
    IF GetError(petition_result) \/ petition_result.payload # "pdf" THEN 502 ELSE 200

\* the status the handler decides on from petition_result: 404 for an error
\* dict, for a missing data bag, document, PDF option or URL; 200 (a
\* StreamingResponse) otherwise
lookup_status(petition_result) ==
    IF GetError(petition_result) THEN 404
    ELSE IF petition_result.payload # "pdf" THEN 404
    ELSE 200

\* ------------------------------------------------- hybrid extraction, data
\* the process environment the extraction reads
\*   CENTRALIZED_PROXY_PORT: "" (unset), "none", or a port
\*   MISTRAL_API_KEY: whether secure storage or the environment has a key
\*   ENVIRONMENT: "production" (the default) or "development"
\*   ocr_enabled, mistral_ocr_enabled: the feature flags
Environments ==
    [CENTRALIZED_PROXY_PORT : {"", "none", "8080"},
     MISTRAL_API_KEY : BOOLEAN,
     ENVIRONMENT : {"production", "development"},
     ocr_enabled : BOOLEAN,
     mistral_ocr_enabled : BOOLEAN]

DefaultEnvironment ==
    [CENTRALIZED_PROXY_PORT |-> "", MISTRAL_API_KEY |-> FALSE,
     ENVIRONMENT |-> "production", ocr_enabled |-> TRUE,
     mistral_ocr_enabled |-> TRUE]

\* centralized_port and centralized_port != 'none'
centralized_configured(e) ==
    e.CENTRALIZED_PROXY_PORT # "" /\ e.CENTRALIZED_PROXY_PORT # "none"

\* An error message: its text, and whether the hint of the ValueError handler
\* ("... To enable OCR, configure MISTRAL_API_KEY.") was appended to it.
Message(text) == [text |-> text, hint |-> FALSE]

NoMessage == Message("")

\* f"{str(e)}. PyPDF2 extraction failed - document may be scanned. To enable
\* OCR, configure MISTRAL_API_KEY."
WithHint(message) == [message EXCEPT !.hint = TRUE]

\* "api" in message.lower() and "key" in message.lower()
mentions_api_key(message) ==
    \/ message.hint
    \/ message.text \in
           {"MISTRAL_API_KEY required for OCR extraction",
            "Mistral API authentication failed - check MISTRAL_API_KEY"}

\* "timeout" in message.lower(): none of the texts below has the word
\* ("OCR operation timed out after ..." has not)
mentions_timeout(message) == FALSE

\* include_details of format_error_response
include_details(e) == e.ENVIRONMENT \in {"development", "dev", "test"}

\* faulty variant: the message of the caller is always kept
safe_message_verbatim(message, status_code, e) == message

\* safe_message of format_error_response: the sanitizer leaves the texts
\* below as they are (nothing in them has the shape of a credential); in
\* production some messages are replaced by generic ones
safe_message(message, status_code, e) ==
    IF include_details(e) THEN message
    ELSE IF status_code = 401 THEN Message("Authentication required")
    ELSE IF status_code = 403 THEN Message("Access denied")
    ELSE IF status_code = 429 THEN Message("Rate limit exceeded")
    ELSE IF status_code >= 500 THEN Message("Internal server error occurred")
    ELSE IF mentions_api_key(message) THEN Message("Configuration error")
    ELSE IF mentions_timeout(message)
         THEN Message("Service temporarily unavailable")
    ELSE message

\* The dict extract_document_content_hybrid returns, reduced to the keys that
\* tell results apart; processing_cost_usd in thousandths of a dollar.
ExtractionResult(extraction_method, processing_cost_usd) ==
    [success |-> TRUE, error |-> NoMessage, status_code |-> 0,
     extraction_method |-> extraction_method,
     processing_cost_usd |-> processing_cost_usd]

NoResult ==
    [success |-> FALSE, error |-> NoMessage, status_code |-> 0,
     extraction_method |-> "none", processing_cost_usd |-> 0]

\* format_error_response(message, status_code, request_id)
ErrorResult(message, status_code, e) ==
    [NoResult EXCEPT !.error = safe_message(message, status_code, e),
                     !.status_code = status_code]

\* the error dict get_petition_by_id returned, passed on as it is
PassedOn(petition_data) ==
    [NoResult EXCEPT !.error = Message("petition lookup failed"),
                     !.status_code = petition_data.status_code]

\* except ValueError as e
OnValueError(text, e) == ErrorResult(WithHint(Message(text)), 400, e)

\* except Exception as e: f"Failed to extract document content: {str(e)}"
OnException(e) ==
    ErrorResult(Message("Failed to extract document content"), 500, e)

\* Text as PyPDF2 extracted it, by what is_good_extraction measures:
\* len(text), the number of characters that are neither alphanumeric nor
\* whitespace nor in  .,;:!?-()[]{}  and len(text.split()).
Text(len, garbled, words) == [len |-> len, garbled |-> garbled, words |-> words]

Texts ==
    {Text(0, 0, 0)} \cup
    {Text(len, garbled, words) :
        len \in {99, 100, 200}, garbled \in {0, 30, 31, 60, 61},
        words \in {1, 19, 20}}

\* faulty variant: a text of exactly 100 characters is rejected
is_good_extraction_off_by_one(text) ==
    /\ ~(text.len <= 100)
    /\ ~(text.garbled * 10 > 3 * text.len)
    /\ ~(text.words < 20)

\* garbled_count / len(text) > 0.3 is compared in tenths
is_good_extraction(text) ==
    /\ ~(text.len < 100)
    /\ ~(text.garbled * 10 > 3 * text.len)
    /\ ~(text.words < 20)

\* no request of this kind was sent
NotTried == -3

\* outcomes of a POST or GET the extraction awaits: a status code, or 0 for
\* an exception of the transport (connection refused, httpx timeout)
TransportError == 0
RegistrationOutcomes == {200, 500, TransportError}
CentralizedDownloadOutcomes == {200, 404, 500, TransportError}
LocalDownloadOutcomes == {200, 429, TransportError}
\* -1: 200 without a file id; -2: asyncio.TimeoutError of the OCR operation
NoFileId == -1
OperationTimeout == -2
UploadOutcomes == {200, 401, 402, 500, NoFileId, TransportError}
OcrOutcomes == {200, 401, 402, 500, OperationTimeout, TransportError}
\* usage_info.pages_processed of a successful OCR answer
PagesProcessed == {0, 3}

\* except httpx.HTTPStatusError in extract_with_mistral_ocr
mistral_status_error(status_code) ==
    IF status_code = 401
    THEN "Mistral API authentication failed - check MISTRAL_API_KEY"
    ELSE IF status_code = 402
    THEN "Mistral API payment required - insufficient credits"
    ELSE "Mistral API error"

NoExtraction ==
    [pc |-> "idle", auto_optimize |-> TRUE, pypdf_text |-> Text(0, 0, 0),
     parsed |-> FALSE, registration |-> NotTried, centralized |-> NotTried,
     local |-> NotTried,
     ocr_invoked |-> FALSE, ocr_calls |-> 0, result |-> NoResult]

\* -------------------------------------------- proxy: enhanced filename, data
\* A str is a sequence of characters; NoStr is None.
NoStr == <<"None">>

\* bool(s) of an Optional[str]
truthy(s) == s # NoStr /\ s # << >>

LowerCase == <<"a", "b", "c", "d", "e", "f", "g", "h", "i", "j", "k", "l", "m",
               "n", "o", "p", "q", "r", "s", "t", "u", "v", "w", "x", "y", "z">>
UpperCase == <<"A", "B", "C", "D", "E", "F", "G", "H", "I", "J", "K", "L", "M",
               "N", "O", "P", "Q", "R", "S", "T", "U", "V", "W", "X", "Y", "Z">>
Digits == {"0", "1", "2", "3", "4", "5", "6", "7", "8", "9"}
Whitespace == {" ", "\t", "\n"}

Range(s) == {s[i] : i \in 1..Len(s)}

\* str.upper(), character by character
upper_char(c) ==
    IF \E i \in 1..26 : LowerCase[i] = c
    THEN UpperCase[CHOOSE i \in 1..26 : LowerCase[i] = c]
    ELSE c

upper(s) == [i \in 1..Len(s) |-> upper_char(s[i])]

\* str.replace(' ', '_')
replace_spaces(s) == [i \in 1..Len(s) |-> IF s[i] = " " THEN "_" ELSE s[i]]

\* the characters re.sub(r'[^A-Z0-9_-]', '', ...) keeps
FilenameChars == Range(UpperCase) \cup Digits \cup {"_", "-"}

\* s[:n]
prefix(s, n) == SubSeq(s, 1, IF Len(s) < n THEN Len(s) ELSE n)

\* bool(s.strip())
strip_truthy(s) == \E i \in 1..Len(s) : s[i] \notin Whitespace

\* s.split('T')[0]
before_T(s) ==
    IF "T" \in Range(s)
    THEN SubSeq(s, 1, (CHOOSE i \in 1..Len(s) :
                          s[i] = "T" /\ \A j \in 1..(i - 1) : s[j] # "T") - 1)
    ELSE s

RECURSIVE join(_, _)
\* sep.join(components)
join(components, sep) ==
    IF components = << >> THEN << >>
    ELSE IF Len(components) = 1 THEN Head(components)
    ELSE Head(components) \o sep \o join(Tail(components), sep)

\* the argument max_desc_length=40 of both calls
max_desc_length == 40

sanitize_description(description, max_length) ==
    IF ~truthy(description) THEN <<"D", "O", "C", "U", "M", "E", "N", "T">>
    ELSE prefix(SelectSeq(replace_spaces(upper(description)),
                          LAMBDA c : c \in FilenameChars),
                max_length)

\* components of generate_enhanced_filename, before the join
filename_components(petition_mail_date, app_number, patent_number, document_description, document_code) ==
    (IF truthy(petition_mail_date) /\ strip_truthy(petition_mail_date)
     THEN << <<"P", "E", "T", "-">> \o before_T(petition_mail_date) >>
     ELSE << >>)
    \o << <<"A", "P", "P", "-">>
            \o (IF truthy(app_number) THEN app_number
                ELSE <<"U", "N", "K", "N", "O", "W", "N">>) >>
    \o (IF truthy(patent_number) /\ strip_truthy(patent_number)
        THEN << <<"P", "A", "T", "-">> \o patent_number >>
        ELSE << >>)
    \o << sanitize_description(
              IF truthy(document_description) THEN document_description
              ELSE IF truthy(document_code) THEN document_code
              ELSE <<"D", "O", "C", "U", "M", "E", "N", "T">>,
              max_desc_length) >>

generate_enhanced_filename(petition_mail_date, app_number, patent_number, document_description, document_code) ==
    join(filename_components(petition_mail_date, app_number, patent_number,
                             document_description, document_code), <<"_">>)
        \o <<".", "p", "d", "f">>

\* a str of n equal characters
repeat(c, n) == [i \in 1..n |-> c]

\* arguments tried
MailDates ==
    {NoStr, << >>, <<" ">>,
     <<"2", "0", "2", "4", "-", "0", "1", "-", "0", "5">>,
     <<"2", "0", "2", "4", "-", "0", "1", "-", "0", "5", "T", "0", "9">>}
AppNumbers == {NoStr, << >>, <<"1", "7", "1", "2", "3">>}
PatentNumbers == {NoStr, <<" ">>, <<"1", "1", "2", "2", "3">>}
Descriptions ==
    {NoStr, << >>,
     <<"P", "e", "t", "i", "t", "i", "o", "n", " ", "D", "e", "c", ".">>,
     <<"a", "-", "b", "_", "9">>,
     <<"#">>,
     <<"(", ")">>,
     repeat("x", max_desc_length),
     repeat("x", max_desc_length + 1),
     <<"#">> \o repeat("y", max_desc_length) \o <<" ", "z">>}
DocumentCodes == {NoStr, <<"P", "E", "T", ".", "D", "E", "C">>}

NoFilenameCall ==
    [pc |-> "idle", petition_mail_date |-> NoStr, app_number |-> NoStr,
     patent_number |-> NoStr, document_description |-> NoStr,
     document_code |-> NoStr, components |-> << >>, filename |-> NoStr]

\* ------------------------------------------------- proxy: middleware, data
MAX_REQUEST_SIZE == 1024 * 1024

\* the headers SecurityHeadersMiddleware sets
SecurityHeaders ==
    {"X-Frame-Options", "X-Content-Type-Options", "Strict-Transport-Security",
     "Content-Security-Policy", "Referrer-Policy", "Permissions-Policy"}

\* allow_origins of the CORSMiddleware
AllowOrigins == {"http://localhost:3000", "http://127.0.0.1:3000",
                 "http://localhost:8080", "http://127.0.0.1:8080"}

\* app.add_middleware(cls): the class is put in front of the list, and the
\* application is wrapped in the list's classes from the last to the first;
\* the first entry is the outermost layer
add_middleware(user_middleware, cls) == <<cls>> \o user_middleware

\* the three add_middleware calls of create_proxy_app, in their order
user_middleware ==
    add_middleware(
        add_middleware(
            add_middleware(<< >>, "RequestSizeLimitMiddleware"),
            "SecurityHeadersMiddleware"),
        "CORSMiddleware")

\* requests tried: method, Origin ("" for none), whether the header
\* Access-Control-Request-Method is there, Content-Length (-1 for none)
HttpRequests ==
    [method : {"GET", "OPTIONS"},
     origin : {"", "http://localhost:3000", "http://example.org"},
     access_control_request_method : BOOLEAN,
     content_length : {-1, 0, MAX_REQUEST_SIZE, MAX_REQUEST_SIZE + 1}]

\* statuses the routes and the exception handlers below the middleware answer
RouteStatuses == {200, 404, 405, 429, 500}

HttpResponse(status_code, headers) ==
    [status_code |-> status_code, headers |-> headers]

\* CORSMiddleware answers a preflight request itself
is_preflight(request) ==
    /\ request.method = "OPTIONS"
    /\ request.origin # ""
    /\ request.access_control_request_method

\* CORSMiddleware.preflight_response
preflight_response(request) ==
    IF request.origin \in AllowOrigins
    THEN HttpResponse(200, {"Access-Control-Allow-Origin"})
    ELSE HttpResponse(400, {})

\* RequestSizeLimitMiddleware.dispatch rejects the request
too_large(request) == request.content_length > MAX_REQUEST_SIZE

\* what a layer does to the response that comes back through it
on_response(cls, request, response) ==
    IF cls = "SecurityHeadersMiddleware"
    THEN [response EXCEPT !.headers = @ \cup SecurityHeaders]
    ELSE IF cls = "CORSMiddleware" /\ request.origin \in AllowOrigins
    THEN [response EXCEPT !.headers = @ \cup {"Access-Control-Allow-Origin"}]
    ELSE response

NoExchange ==
    [pc |-> "idle",
     request |-> [method |-> "GET", origin |-> "",
                  access_control_request_method |-> FALSE,
                  content_length |-> -1],
     layer |-> 0, response |-> HttpResponse(0, {}), answered_by |-> "none"]

\* ------------------------------------------- _build_convenience_query, data
\* leading and trailing whitespace removed
strip(s) ==
    IF ~strip_truthy(s) THEN << >>
    ELSE LET inked == {i \in 1..Len(s) : s[i] \notin Whitespace}
             first == CHOOSE i \in inked : \A j \in inked : i <= j
             last == CHOOSE i \in inked : \A j \in inked : j <= i
         IN  SubSeq(s, first, last)

\* A ValidationError, by the parameter it is about and what it says of it
ValidationError(param_name, problem) ==
    [param_name |-> param_name, problem |-> problem]

NoError == ValidationError("", "")

\* "Parameters petition_type_code, art_unit, technology_center,
\* prosecution_status, and entity_status are only available in
\* fpd_search_petitions_balanced. Use fpd_search_petitions_balanced for
\* advanced filtering."
BalancedOnlyError ==
    ValidationError("petition_type_code, art_unit, technology_center, prosecution_status, and entity_status",
                    "only available in fpd_search_petitions_balanced")

\* "Must provide either 'query' parameter or at least one convenience parameter"
NoCriterionError == ValidationError("", "no search criterion")

\* what a validator does: it returns a value (None included) or raises
Validated(value) == [value |-> value, raised |-> NoError]
Raised(error) == [value |-> NoStr, raised |-> error]

\* re.search(r'[<>"\'\\\\/\x00-\x1f]', clean_value)
SuspiciousChars == {"<", ">", "\"", "'", "\\", "/", "\t", "\n"}

validate_string_param(param_name, param_value, max_length) ==
    IF ~truthy(param_value) THEN Validated(NoStr)
    ELSE LET clean_value == strip(param_value)
         IN  IF clean_value = << >> THEN Validated(NoStr)
             ELSE IF Len(clean_value) > max_length
             THEN Raised(ValidationError(param_name, "too long"))
             ELSE IF Range(clean_value) \cap SuspiciousChars # {}
             THEN Raised(ValidationError(param_name, "contains invalid characters"))
             ELSE Validated(clean_value)

validate_application_number(app_number) ==
    IF ~truthy(app_number) THEN Validated(NoStr)
    ELSE LET clean_number ==
                 SelectSeq(strip(app_number), LAMBDA c : c \notin {"/", " "})
         IN  IF clean_number = << >> THEN Validated(NoStr)
             ELSE IF Len(clean_number) < 6 \/ Len(clean_number) > 10
             THEN Raised(ValidationError("application_number", "should be 6-10 digits"))
             ELSE IF ~(Range(clean_number) \subseteq Digits)
             THEN Raised(ValidationError("application_number",
                                         "should contain only digits"))
             ELSE Validated(clean_number)

DigitSeq == <<"0", "1", "2", "3", "4", "5", "6", "7", "8", "9">>

digit(c) == (CHOOSE i \in 1..10 : DigitSeq[i] = c) - 1

RECURSIVE int(_)
\* int(s) of a str of digits
int(s) == IF s = << >> THEN 0
          ELSE 10 * int(SubSeq(s, 1, Len(s) - 1)) + digit(s[Len(s)])

\* re.match(r'^\d{4}-\d{2}-\d{2}$', clean_date)
matches_date_format(s) ==
    /\ Len(s) = 10
    /\ s[5] = "-" /\ s[8] = "-"
    /\ \A i \in {1, 2, 3, 4, 6, 7, 9, 10} : s[i] \in Digits

days_in_month(year, month) ==
    IF month \in {4, 6, 9, 11} THEN 30
    ELSE IF month # 2 THEN 31
    ELSE IF year % 4 = 0 /\ (year % 100 # 0 \/ year % 400 = 0) THEN 29
    ELSE 28

\* datetime.strptime(clean_date, '%Y-%m-%d') does not raise
is_calendar_date(s) ==
    /\ int(SubSeq(s, 1, 4)) >= 1
    /\ int(SubSeq(s, 6, 7)) \in 1..12
    /\ int(SubSeq(s, 9, 10)) >= 1
    /\ int(SubSeq(s, 9, 10))
          <= days_in_month(int(SubSeq(s, 1, 4)), int(SubSeq(s, 6, 7)))

\* datetime.now().year
current_year == 2026

validate_date_range(date_str) ==
    IF ~truthy(date_str) THEN Validated(NoStr)
    ELSE LET clean_date == strip(date_str)
         IN  IF clean_date = << >> THEN Validated(NoStr)
             ELSE IF ~matches_date_format(clean_date)
             THEN Raised(ValidationError("date", "must be in YYYY-MM-DD format"))
             ELSE IF ~is_calendar_date(clean_date)
             THEN Raised(ValidationError("date", "invalid date"))
             ELSE IF int(SubSeq(clean_date, 1, 4)) < 1990
                     \/ int(SubSeq(clean_date, 1, 4)) > current_year + 5
             THEN Raised(ValidationError("date", "year out of range"))
             ELSE Validated(clean_date)

\* One part of the query: the field, the value and how the part is written:
\*   "plain"   field:value          "quoted"  field:"value"
\*   "range"   field:[value]        "base"    (value)
Clause(field, value, form) == [field |-> field, value |-> value, form |-> form]

\* the separator " AND " of the final query
AND == Clause("", <<" ", "A", "N", "D", " ">>, "separator")

\* query_parts, and the ValidationError raised, if any
Building(query_parts, raised) == [query_parts |-> query_parts, raised |-> raised]

\* `if value: validated = validate(...); if validated: query_parts.append(...)`:
\* what one parameter adds to query_parts, or raises
add_clause(param_value, validated, field, form) ==
    IF ~truthy(param_value) THEN Building(<< >>, NoError)
    ELSE IF validated.raised # NoError THEN Building(<< >>, validated.raised)
    ELSE IF truthy(validated.value)
    THEN Building(<<Clause(field, validated.value, form)>>, NoError)
    ELSE Building(<< >>, NoError)

\* str() of the start or the end of a date range
date_bound(date_str, validated) ==
    IF ~truthy(date_str) THEN <<"*">>
    ELSE IF validated.value = NoStr THEN <<"N", "o", "n", "e">>
    ELSE validated.value

\* `if start or end: ...; if start != "*" or end != "*": query_parts.append(...)`
add_date_range(date_start, date_end, start, end, field) ==
    IF ~(truthy(date_start) \/ truthy(date_end)) THEN Building(<< >>, NoError)
    ELSE IF truthy(date_start) /\ start.raised # NoError
    THEN Building(<< >>, start.raised)
    ELSE IF truthy(date_end) /\ end.raised # NoError
    THEN Building(<< >>, end.raised)
    ELSE Building(<<Clause(field,
                           date_bound(date_start, start)
                               \o <<" ", "T", "O", " ">>
                               \o date_bound(date_end, end),
                           "range")>>,
                  NoError)

\* the parameters of the balanced tier, with the field and the form of their
\* clause and the max_length of their validation
BalancedParams ==
    {"petition_type_code", "art_unit", "technology_center",
     "prosecution_status", "entity_status"}

\* faulty variant: an empty string does not count as provided
provided_balanced_params_truthy(args) ==
    {p \in BalancedParams : truthy(args[p])}

\* provided_balanced_params = [p for p in balanced_only_params if p is not None]
provided_balanced_params(args) == {p \in BalancedParams : args[p] # NoStr}

\* what each parameter of the minimal tier adds or raises, in the order of
\* the code
minimal_clauses(args) ==
    << Building(IF truthy(args.query) /\ strip_truthy(args.query)
                THEN <<Clause("", args.query, "base")>> ELSE << >>,
                NoError),
       add_clause(args.applicant_name,
           validate_string_param("applicant_name", args.applicant_name, 200),
           "firstApplicantName", "quoted"),
       add_clause(args.application_number,
           validate_application_number(args.application_number),
           "applicationNumberText", "plain"),
       add_clause(args.patent_number,
           validate_string_param("patent_number", args.patent_number, 15),
           "patentNumber", "plain"),
       add_clause(args.decision_type,
           validate_string_param("decision_type", args.decision_type, 50),
           "decisionTypeCodeDescriptionText", "plain"),
       add_clause(args.deciding_office,
           validate_string_param("deciding_office", args.deciding_office, 200),
           "finalDecidingOfficeName", "quoted"),
       add_date_range(args.petition_date_start, args.petition_date_end,
           validate_date_range(args.petition_date_start),
           validate_date_range(args.petition_date_end), "petitionMailDate"),
       add_date_range(args.decision_date_start, args.decision_date_end,
           validate_date_range(args.decision_date_start),
           validate_date_range(args.decision_date_end), "decisionDate") >>

\* what each parameter of the balanced tier adds or raises
balanced_clauses(args) ==
    << add_clause(args.petition_type_code,
           validate_string_param("petition_type_code",
                                 args.petition_type_code, 10),
           "decisionPetitionTypeCode", "plain"),
       add_clause(args.art_unit,
           validate_string_param("art_unit", args.art_unit, 10),
           "groupArtUnitNumber", "plain"),
       add_clause(args.technology_center,
           validate_string_param("technology_center",
                                 args.technology_center, 10),
           "technologyCenter", "plain"),
       add_clause(args.prosecution_status,
           validate_string_param("prosecution_status",
                                 args.prosecution_status, 200),
           "prosecutionStatusCodeDescriptionText", "quoted"),
       add_clause(args.entity_status,
           validate_string_param("entity_status", args.entity_status, 50),
           "businessEntityStatusCategory", "quoted") >>

\* the else branch of `if allow_balanced_params:`
balanced_refused(args) ==
    << Building(<< >>, IF provided_balanced_params(args) # {}
                       THEN BalancedOnlyError ELSE NoError) >>

\* the steps run in order: the first one that raises ends the call
run_in_order(steps) ==
    LET raising == {i \in 1..Len(steps) : steps[i].raised # NoError}
    IN  IF raising # {}
        THEN Building(<< >>,
                      steps[CHOOSE i \in raising :
                                \A j \in raising : i <= j].raised)
        ELSE Building(join([i \in 1..Len(steps) |-> steps[i].query_parts],
                           << >>),
                      NoError)

\* query_parts and the error raised, before the final join
build_query_parts(args) ==
    LET built == run_in_order(
                     minimal_clauses(args)
                         \o (IF args.allow_balanced_params
                             THEN balanced_clauses(args)
                             ELSE balanced_refused(args)))
    IN  IF built.raised = NoError /\ built.query_parts = << >>
        THEN Building(<< >>, NoCriterionError)
        ELSE built

\* " AND ".join(query_parts)
final_query(query_parts) ==
    join([i \in 1..Len(query_parts) |-> <<query_parts[i]>>], <<AND>>)

\* arguments tried
QueryArguments ==
    [query : {<< >>, <<"a", ":", "b">>},
     applicant_name : {NoStr, <<"A", "p", "p", "l", "e", " ", "I", "n", "c", ".">>,
                       <<"<", "b", ">">>},
     application_number : {NoStr, <<"1", "7", "/", "8", "9", "6", "1", "7", "5">>},
     patent_number : {NoStr},
     decision_type : {NoStr},
     deciding_office : {NoStr},
     petition_date_start : {NoStr, <<"2", "0", "2", "4", "-", "0", "1", "-", "0", "1">>},
     petition_date_end : {NoStr},
     decision_date_start : {NoStr},
     decision_date_end : {NoStr},
     petition_type_code : {NoStr},
     art_unit : {NoStr, << >>, <<" ", "2", "1", "2", "8", " ">>, repeat("9", 11),
                 <<"2", "1", "/", "8">>},
     technology_center : {NoStr, <<"2", "1", "0", "0">>},
     prosecution_status : {NoStr, << >>, <<" ">>,
                           <<"P", "a", "t", "e", "n", "t", "e", "d">>},
     entity_status : {NoStr, <<"S", "m", "a", "l", "l">>},
     allow_balanced_params : BOOLEAN]

NoArguments ==
    [query |-> << >>, applicant_name |-> NoStr, application_number |-> NoStr,
     patent_number |-> NoStr, decision_type |-> NoStr, deciding_office |-> NoStr,
     petition_date_start |-> NoStr, petition_date_end |-> NoStr,
     decision_date_start |-> NoStr, decision_date_end |-> NoStr,
     petition_type_code |-> NoStr, art_unit |-> NoStr,
     technology_center |-> NoStr, prosecution_status |-> NoStr,
     entity_status |-> NoStr, allow_balanced_params |-> FALSE]

NoQueryCall ==
    [pc |-> "idle", args |-> NoArguments, query_parts |-> << >>,
     raised |-> NoError, final_query |-> << >>]

\* the proxy application after create_proxy_app, nothing requested yet
NoDownload ==
    [pc |-> "idle", client |-> "None", petition_result |-> None,
     fetch_status |-> 0, response |-> NoResponse, lookups |-> 0, fetches |-> 0]

ProxyCreated ==
    /\ rate_limiter = RateLimiter
    /\ download = NoDownload
    /\ allowed_log = [client \in RequestClients |-> << >>]
    /\ advances = 0
    /\ exchange = NoExchange

\* no extraction requested yet
ExtractIdle ==
    /\ extraction = NoExtraction

\* ------------------------------------------- FPDClient: its two breakers, data
MISTRAL_FAILURE_THRESHOLD == 3
MISTRAL_RECOVERY_TIMEOUT == 30

\* The objects of the interpreter are named by their identity (id(obj)); an
\* attribute of FPDClient holds the identity of the object assigned to it.
\* faulty variant: one CircuitBreaker instance behind both attributes
FPDClient_breakers_shared == [uspto_circuit_breaker |-> 1, mistral_circuit_breaker |-> 1]

\* self.uspto_circuit_breaker = CircuitBreaker(...);
\* self.mistral_circuit_breaker = CircuitBreaker(...): two constructor calls,
\* two objects
FPDClient_breakers == [uspto_circuit_breaker |-> 1, mistral_circuit_breaker |-> 2]

BreakerNames == {"uspto_circuit_breaker", "mistral_circuit_breaker"}

\* the instance attributes of the objects made by FPDClient.__init__
FPDClient_objects ==
    (1 :> CircuitBreaker(USPTO_FAILURE_THRESHOLD, USPTO_RECOVERY_TIMEOUT))
        @@ (2 :> CircuitBreaker(MISTRAL_FAILURE_THRESHOLD, MISTRAL_RECOVERY_TIMEOUT))

\* self.<name>, the object
breaker(name) == objects[FPDClient_breakers[name]]

\* an assignment to attributes of self.<name>
with_breaker(name, b) == [objects EXCEPT ![FPDClient_breakers[name]] = b]

\* the clock of the two-breaker specification advances past a recovery timeout
PairSteps == {MISTRAL_RECOVERY_TIMEOUT + 1, USPTO_RECOVERY_TIMEOUT + 1}

\* ------------------------------------------- extract_with_mistral_ocr, data
\* "pages": ... min(page_count, 50) ...
MAX_OCR_PAGES == 50

\* "pages": None
NoPages == -1

\* document.get(FPDFields.PAGE_COUNT, 0) of the caller: the metadata of the
\* document has a page count, or none (Absent)
AbsentPageCount == -2
PageCounts == {AbsentPageCount, 0, 1, 2, MAX_OCR_PAGES - 1, MAX_OCR_PAGES,
               MAX_OCR_PAGES + 1, 4 * MAX_OCR_PAGES}

page_count_of(pageCount) == IF pageCount = AbsentPageCount THEN 0 ELSE pageCount

\* the pages of the PDF that is uploaded
DocumentPages == {1, MAX_OCR_PAGES + 10}

min(a, b) == IF a <= b THEN a ELSE b

\* list(range(min(page_count, 50))) if page_count > 0 else None, by its length
ocr_pages(page_count) ==
    IF page_count > 0 THEN min(page_count, MAX_OCR_PAGES) ELSE NoPages

\* The OCR service recognises the pages the request names, as far as the
\* document has them, and the whole document when the request names none:
\* usage_info.pages_processed of its answer
pages_processed_of(pages, document_pages) ==
    IF pages = NoPages THEN document_pages ELSE min(pages, document_pages)

\* the environments of the OCR specification
OcrEnvironments ==
    {e \in Environments : /\ e.CENTRALIZED_PROXY_PORT = ""
                          /\ e.ENVIRONMENT = "production"
                          /\ e.ocr_enabled}

\* extract_with_mistral_ocr is not running; failed_in_row observes the calls
\* that reached the OCR service and raised since the latest one that returned
NoOcrCall ==
    [pc |-> "idle", page_count |-> 0, document_pages |-> 0, pages |-> NoPages,
     contacted |-> 0, pages_processed |-> 0, estimated_cost |-> 0,
     raised |-> "", failed_in_row |-> 0]

\* ------------------------------------------- SimpleCache used directly, data
MaxCacheOps == 5         \* operations on the cache under test

\* keys tried on the cache under test: one more than its largest maxsize
CacheKeys == 1..(CacheMaxSize + 2)

\* the clock advances by a second or by the lifetime of an entry
CacheSteps == {1, DEFAULT_CACHE_TTL_SECONDS}

\* SimpleCache.clear
SimpleCache_clear(c) ==
    [c EXCEPT !.cache = [k \in DOMAIN c.cache |-> Absent], !.access_order = <<>>]

\* no operation yet
NoCacheOp == [op |-> "none", key |-> 0]

\* ------------------------------------------- CacheManager._generate_cache_key
\* Python values as the client hands them to CacheManager: str, int, list and
\* dict; a dict or the keyword arguments of a call are the sequence of their
\* (name, value) items in insertion order.
PyStr(s) == [type |-> "str", v |-> s]
PyInt(n) == [type |-> "int", v |-> n]
PyList(items) == [type |-> "list", v |-> items]
PyDict(items) == [type |-> "dict", v |-> items]

\* the names that occur as dict keys and keyword names, in code point order
code_points ==
    <<"args", "json", "kwargs", "limit", "method", "offset", "params">>

rank(s) == CHOOSE i \in DOMAIN code_points : code_points[i] = s

without(items, i) ==
    SubSeq(items, 1, i - 1) \o SubSeq(items, i + 1, Len(items))

\* sorted(items) for (name, value) items with distinct names
RECURSIVE sorted(_)
sorted(items) ==
    IF items = << >> THEN << >>
    ELSE LET least == CHOOSE i \in DOMAIN items :
                          \A j \in DOMAIN items :
                              rank(items[i][1]) <= rank(items[j][1])
         IN  <<items[least]>> \o sorted(without(items, least))

RECURSIVE join_text(_, _)
join_text(texts, sep) ==
    IF texts = << >> THEN ""
    ELSE IF Len(texts) = 1 THEN texts[1]
    ELSE texts[1] \o sep \o join_text(Tail(texts), sep)

\* json.dumps(value, sort_keys=True, default=str)
RECURSIVE json_dumps(_)
json_dumps(value) ==
    IF value.type = "str" THEN "\"" \o value.v \o "\""
    ELSE IF value.type = "int" THEN ToString(value.v)
    ELSE IF value.type = "list"
    THEN "[" \o join_text([i \in DOMAIN value.v |-> json_dumps(value.v[i])],
                          ", ") \o "]"
    ELSE LET items == sorted(value.v)
         IN  "{" \o join_text([i \in DOMAIN items |->
                                  "\"" \o items[i][1] \o "\": "
                                       \o json_dumps(items[i][2])], ", ")
                 \o "}"

\* hashlib.md5(...).hexdigest(): the digest stands for the text it was made
\* of; no two of the texts hashed here share a digest
md5(text) == <<"md5", text>>

\* a tuple becomes a JSON array
items_as_lists(items) ==
    PyList([i \in DOMAIN items |-> PyList(<<PyStr(items[i][1]), items[i][2]>>)])

\* faulty variant: the keyword arguments are taken in the order given
generate_cache_key_unsorted(method_name, args, kwargs) ==
    LET key_data == PyDict(<<<<"method", PyStr(method_name)>>,
                             <<"args", PyList(args)>>,
                             <<"kwargs", items_as_lists(kwargs)>>>>)
    IN  md5(json_dumps(key_data))

generate_cache_key(method_name, args, kwargs) ==
    LET key_data == PyDict(<<<<"method", PyStr(method_name)>>,
                             <<"args", PyList(args)>>,
                             <<"kwargs", items_as_lists(sorted(kwargs))>>>>)
    IN  md5(json_dumps(key_data))

\* cache_key = f"{method}_{endpoint}" and the key CacheManager derives
request_cache_key(call) ==
    generate_cache_key(call.method \o "_" \o call.endpoint, << >>, call.kwargs)

\* the item sequences over the given names, each name at most once, with
\* the values values[name]
ItemSeqs(values) ==
    {<< >>}
      \cup {<<<<n, v>>>> : n \in DOMAIN values, v \in UNION {values[m] : m \in DOMAIN values}}
      \cup {<<<<n1, v1>>, <<n2, v2>>>> :
                n1 \in DOMAIN values, v1 \in UNION {values[m] : m \in DOMAIN values},
                n2 \in DOMAIN values, v2 \in UNION {values[m] : m \in DOMAIN values}}

WellFormed(items, values) ==
    /\ \A i \in DOMAIN items : items[i][2] \in values[items[i][1]]
    /\ \A i, j \in DOMAIN items : items[i][1] = items[j][1] => i = j

\* request bodies and query parameters
JsonBodies ==
    LET values == [limit |-> {PyInt(1), PyStr("1")}, offset |-> {PyInt(1)}]
    IN  {PyDict(items) : items \in {s \in ItemSeqs(values) : WellFormed(s, values)}}

QueryParams == {PyDict(<< >>), PyDict(<<<<"limit", PyInt(1)>>>>)}

\* keyword arguments of _make_request that httpx receives
RequestKwargs ==
    LET values == [json |-> JsonBodies, params |-> QueryParams]
    IN  {s \in ItemSeqs(values) : WellFormed(s, values)}

KeyCalls ==
    [method : {"GET", "POST"}, endpoint : {"search", "limit"},
     kwargs : RequestKwargs]

NoKeyCall == [method |-> "", endpoint |-> "", kwargs |-> << >>]

NoKeyed ==
    [pc |-> "idle", first |-> NoKeyCall, second |-> NoKeyCall,
     stored |-> md5(""), hit |-> FALSE]

\* --------------------------------------- uspto_semaphore and _make_request
MaxPermits == 1          \* permits of the semaphore under test (FPDClient: 10)

GateRequests == 1..(MaxPermits + 1)

\* asyncio.Semaphore(value): woken are the waiters whose future is done and
\* that have not run yet
Semaphore(value) == [value |-> value, waiters |-> << >>, woken |-> {}]

\* faulty variant: the semaphore never counts as taken
locked_never(s) == FALSE

locked(s) == s.value = 0 \/ s.waiters # << >>

wake_up_next(s) ==
    LET pending == SelectSeq(s.waiters, LAMBDA r : r \notin s.woken)
    IN  IF pending = << >> THEN s
        ELSE [s EXCEPT !.value = @ - 1, !.woken = @ \cup {Head(pending)}]

\* faulty variant: nobody is woken
release_without_wake(s) == [s EXCEPT !.value = @ + 1]

release(s) == wake_up_next([s EXCEPT !.value = @ + 1])

\* acquire() of request r where the semaphore is free, where it is taken,
\* and after r was woken
acquire_free(s) == [s EXCEPT !.value = @ - 1]

acquire_wait(s, r) == [s EXCEPT !.waiters = Append(@, r)]

acquire_woken(s, r) ==
    LET t == [s EXCEPT !.waiters = Remove(@, r), !.woken = @ \ {r}]
    IN  IF t.value > 0 THEN wake_up_next(t) ELSE t

\* A result of _make_request with the keys a caller can tell apart: 0 for
\* no "status_code" or "request_id" key, "absent" for no "success" key.
GateResult(payload, error) ==
    [payload |-> payload, error |-> error, status_code |-> 0,
     success |-> "absent", request_id |-> 0, cached |-> FALSE]

NoGateResult == GateResult("None", "absent")

\* JSON objects of a 2xx answer
GateBodies == {GateResult("P1", "absent"), GateResult("P1", "truthy")}

\* format_error_response(message, status_code, request_id)
structured_error(status_code, request_id) ==
    [payload |-> "absent", error |-> "truthy", status_code |-> status_code,
     success |-> "False", request_id |-> request_id, cached |-> FALSE]

\* the copy of the cached value that the fallback returns
cached_copy(d, request_id) ==
    [d EXCEPT !.cached = TRUE, !.request_id = request_id]

\* "All retries failed"
retries_failed(exc, request_id) ==
    IF exc.kind = "timeout" THEN structured_error(408, request_id)
    ELSE IF exc.kind = "http" THEN structured_error(exc.status_code, request_id)
    ELSE structured_error(500, request_id)

\* a request before _make_request is called for it; ended and waited are
\* observers: how the call ended and whether it queued for a permit
GateIdle ==
    [pc |-> "idle", attempt |-> 0, last_exception |-> NoException,
     result |-> NoGateResult, ended |-> "no", waited |-> FALSE]

\* the breaker of the client and the cache entry of the requests' key
GateClient ==
    [uspto_circuit_breaker |->
         CircuitBreaker(USPTO_FAILURE_THRESHOLD, USPTO_RECOVERY_TIMEOUT),
     cached |-> NoGateResult]

\* the semaphore as constructed, with the calls that will be made
GateConstructed ==
    /\ uspto_semaphore = Semaphore(MaxPermits)
    /\ gate = [r \in GateRequests |-> GateIdle]
    /\ gate_client = GateClient

\* Each component outside the breaker and the client is exercised by a
\* specification of its own; a specification that does not construct a
\* component leaves it at Unused.
Unused == << >>

ProxyUnused ==
    /\ rate_limiter = Unused
    /\ download = Unused
    /\ allowed_log = Unused
    /\ advances = 0
    /\ exchange = Unused

ExtractUnused == extraction = Unused

PureUnused == naming = Unused /\ building = Unused

PairUnused == objects = Unused /\ pair_pc = Unused

OcrUnused == ocr = Unused

CacheUnused ==
    /\ simple_cache = Unused
    /\ cache_op = Unused
    /\ cache_ops = 0
    /\ last_use = Unused

KeyUnused == keyed = Unused

GateUnused == uspto_semaphore = Unused /\ gate = Unused /\ gate_client = Unused

LateUnused ==
    /\ PairUnused
    /\ OcrUnused
    /\ CacheUnused
    /\ KeyUnused
    /\ GateUnused

LateIdle ==
    /\ probing = {}
    /\ LateUnused

\* no other component is constructed
OthersIdle ==
    /\ LateIdle
    /\ ProxyUnused
    /\ ExtractUnused
    /\ env = DefaultEnvironment
    /\ PureUnused

ClientConstructed ==
    /\ uspto_circuit_breaker =
           CircuitBreaker(USPTO_FAILURE_THRESHOLD, USPTO_RECOVERY_TIMEOUT)
    /\ cache_manager = CacheManager(CacheMaxSize, DEFAULT_CACHE_TTL_SECONDS)
    /\ req_pc = [p \in Procs |-> "idle"]
    /\ req_key = [p \in Procs |-> 1]
    /\ attempt = [p \in Procs |-> 0]
    /\ last_exception = [p \in Procs |-> NoException]
    /\ result = [p \in Procs |-> None]
    /\ net_attempts = [p \in Procs |-> 0]
    /\ sleeps = [p \in Procs |-> 0]
    /\ lost = {}
    /\ fail_streak = 0
    /\ elapsed = 0

\* the client and a breaker as constructed, for a specification that
\* exercises one more component
Standalone ==
    /\ ClientConstructed
    /\ cb = CircuitBreaker(1, 1)
    /\ now = 0
    /\ call_pc = [c \in Callers |-> "idle"]
    /\ call_result = [c \in Callers |-> "none"]
    /\ streak = 0
    /\ half_successes = 0
    /\ probing = {}

\* ---------------------------------------------- CircuitBreaker under callers
InitBreaker ==
    /\ ClientConstructed
    /\ OthersIdle
    /\ \E F \in 1..MaxThreshold, RT \in 1..MaxRecovery : cb = CircuitBreaker(F, RT)
    /\ now = 0
    /\ call_pc = [c \in Callers |-> "idle"]
    /\ call_result = [c \in Callers |-> "none"]
    /\ streak = 0
    /\ half_successes = 0

\* call() up to `await func(...)`: either the circuit-open exception, or the
\* wrapped function is invoked.
CallEnter(c) ==
    /\ call_pc[c] = "idle"
    /\ IF call_rejects(cb, now)
       THEN /\ call_result' = [call_result EXCEPT ![c] = "circuit_open"]
            /\ UNCHANGED <<cb, call_pc, half_successes>>
       ELSE /\ cb' = call_check(cb, now)
            /\ call_pc' = [call_pc EXCEPT ![c] = "running"]
            /\ call_result' = [call_result EXCEPT ![c] = "none"]
            /\ half_successes' = IF cb.state = "OPEN" THEN 0 ELSE half_successes
    /\ UNCHANGED <<now, streak>>
    /\ UNCHANGED <<clientVars, otherVars>>

\* the wrapped function returns: _on_success, then call() returns its result
CallReturn(c) ==
    /\ call_pc[c] = "running"
    /\ cb' = on_success(cb)
    /\ call_pc' = [call_pc EXCEPT ![c] = "idle"]
    /\ call_result' = [call_result EXCEPT ![c] = "returned"]
    /\ streak' = 0
    /\ half_successes' = IF cb.state = "HALF_OPEN" THEN half_successes + 1
                         ELSE half_successes
    /\ UNCHANGED now
    /\ UNCHANGED <<clientVars, otherVars>>

\* the wrapped function raises: _on_failure, then call() re-raises
CallRaise(c) ==
    /\ call_pc[c] = "running"
    /\ cb' = on_failure(cb, now)
    /\ call_pc' = [call_pc EXCEPT ![c] = "idle"]
    /\ call_result' = [call_result EXCEPT ![c] = "raised"]
    /\ streak' = streak + 1
    /\ UNCHANGED <<now, half_successes>>
    /\ UNCHANGED <<clientVars, otherVars>>

Tick ==
    /\ now < MaxTime
    /\ now' = now + 1
    /\ UNCHANGED <<breakerVars, otherVars>>
    /\ UNCHANGED <<clientVars, otherVars>>

NoneRunning == \A c \in Callers : call_pc[c] = "idle"

\* any number of callers inside the wrapped function at once
Next ==
    \/ \E c \in Callers : CallEnter(c)
    \/ \E c \in Callers : CallReturn(c)
    \/ \E c \in Callers : CallRaise(c)
    \/ Tick

Spec == InitBreaker /\ [][Next]_vars

\* calls executed one at a time
CallEnterAlone(c) == NoneRunning /\ CallEnter(c)

NextSeq ==
    \/ \E c \in Callers : CallEnterAlone(c)
    \/ \E c \in Callers : CallReturn(c)
    \/ \E c \in Callers : CallRaise(c)
    \/ Tick

SpecSeq == InitBreaker /\ [][NextSeq]_vars

\* ------------------------------------- CircuitBreaker, probes under observation
\* call() up to `await func(...)`, and whether the caller passed as a probe
ProbeEnter(c) ==
    /\ call_pc[c] = "idle"
    /\ IF call_rejects(cb, now)
       THEN /\ call_result' = [call_result EXCEPT ![c] = "circuit_open"]
            /\ UNCHANGED <<cb, call_pc, half_successes, probing>>
       ELSE /\ cb' = call_check(cb, now)
            /\ call_pc' = [call_pc EXCEPT ![c] = "running"]
            /\ call_result' = [call_result EXCEPT ![c] = "none"]
            /\ half_successes' = IF cb.state = "OPEN" THEN 0 ELSE half_successes
            /\ probing' = IF cb'.state = "HALF_OPEN" THEN probing \cup {c}
                          ELSE probing
    /\ UNCHANGED <<now, streak>>
    /\ UNCHANGED <<clientVars, proxyVars, extractVars, pureVars>>
    /\ UNCHANGED <<pairVars, ocrVars, cacheVars, keyVars, gateVars>>

\* the wrapped function returns: _on_success, then call() returns its result
ProbeReturn(c) ==
    /\ call_pc[c] = "running"
    /\ cb' = on_success(cb)
    /\ call_pc' = [call_pc EXCEPT ![c] = "idle"]
    /\ call_result' = [call_result EXCEPT ![c] = "returned"]
    /\ streak' = 0
    /\ half_successes' = IF cb.state = "HALF_OPEN" THEN half_successes + 1
                         ELSE half_successes
    /\ probing' = probing \ {c}
    /\ UNCHANGED now
    /\ UNCHANGED <<clientVars, proxyVars, extractVars, pureVars>>
    /\ UNCHANGED <<pairVars, ocrVars, cacheVars, keyVars, gateVars>>

\* the wrapped function raises: _on_failure, then call() re-raises
ProbeRaise(c) ==
    /\ call_pc[c] = "running"
    /\ cb' = on_failure(cb, now)
    /\ call_pc' = [call_pc EXCEPT ![c] = "idle"]
    /\ call_result' = [call_result EXCEPT ![c] = "raised"]
    /\ streak' = streak + 1
    /\ probing' = probing \ {c}
    /\ UNCHANGED <<now, half_successes>>
    /\ UNCHANGED <<clientVars, proxyVars, extractVars, pureVars>>
    /\ UNCHANGED <<pairVars, ocrVars, cacheVars, keyVars, gateVars>>

NextProbe ==
    \/ \E c \in Callers : ProbeEnter(c)
    \/ \E c \in Callers : ProbeReturn(c)
    \/ \E c \in Callers : ProbeRaise(c)
    \/ Tick

SpecProbe == InitBreaker /\ [][NextProbe]_vars

\* ------------------------------------------------- FPDClient._make_request
InitClient ==
    /\ ClientConstructed
    /\ OthersIdle
    /\ cb = CircuitBreaker(1, 1)
    /\ now = 0
    /\ call_pc = [c \in Callers |-> "idle"]
    /\ call_result = [c \in Callers |-> "none"]
    /\ streak = 0
    /\ half_successes = 0

\* _make_request returns: its locals are gone
Returned(p, res) ==
    /\ result' = [result EXCEPT ![p] = res]
    /\ req_pc' = [req_pc EXCEPT ![p] = "done"]
    /\ req_key' = [req_key EXCEPT ![p] = 1]
    /\ attempt' = [attempt EXCEPT ![p] = 0]
    /\ last_exception' = [last_exception EXCEPT ![p] = NoException]

\* lines 202-210: _execute_request returned res to CircuitBreaker.call, which
\* runs _on_success and hands res back; res is cached if truthy and no error.
ExecuteReturned(p, res) ==
    /\ uspto_circuit_breaker' = on_success(uspto_circuit_breaker)
    /\ IF Truthy(res) /\ ~GetError(res)
       THEN /\ cache_manager' = CacheManager_set(cache_manager, req_key[p], res, now)
            /\ lost' = {k \in Keys : /\ ~cache_manager'.cache.cache[k].present
                                     /\ \/ k \in lost
                                        \/ /\ cache_manager.cache.cache[k].present
                                           /\ now < cache_manager.cache.cache[k].expiry_time}
       ELSE UNCHANGED <<cache_manager, lost>>
    /\ Returned(p, res)

\* lines 153-198: a retryable error; sleep before the next attempt, or leave
\* the loop after the last one.
AttemptFailed(p, exc) ==
    IF attempt[p] < RETRY_ATTEMPTS - 1
    THEN /\ last_exception' = [last_exception EXCEPT ![p] = exc]
         /\ req_pc' = [req_pc EXCEPT ![p] = "sleep"]
         /\ sleeps' = [sleeps EXCEPT ![p] = @ + 1]
         /\ UNCHANGED <<uspto_circuit_breaker, cache_manager, lost,
                        result, req_key, attempt>>
    ELSE /\ ExecuteReturned(p, AllRetriesFailed(exc))
         /\ UNCHANGED sleeps

\* _make_request up to the first network call; with the breaker OPEN the
\* whole fallback (lines 212-242) runs without a suspension point.
BeginRequest(p, k) ==
    /\ req_pc[p] \in {"idle", "done"}
    /\ sleeps' = [sleeps EXCEPT ![p] = 0]
    /\ IF call_rejects(uspto_circuit_breaker, now)
       THEN LET cached_result == CacheManager_get(cache_manager, k, now)
            IN  /\ cache_manager' = CacheManager_touch(cache_manager, k, now)
                /\ Returned(p, IF Truthy(cached_result)
                               THEN Annotate(cached_result)
                               ELSE format_error_response(503))
                /\ net_attempts' = [net_attempts EXCEPT ![p] = 0]
                /\ UNCHANGED uspto_circuit_breaker
       ELSE /\ uspto_circuit_breaker' = call_check(uspto_circuit_breaker, now)
            /\ req_pc' = [req_pc EXCEPT ![p] = "attempt"]
            /\ req_key' = [req_key EXCEPT ![p] = k]
            /\ result' = [result EXCEPT ![p] = None]
            /\ net_attempts' = [net_attempts EXCEPT ![p] = 1]
            /\ UNCHANGED <<cache_manager, attempt, last_exception>>
    /\ UNCHANGED <<lost, elapsed, now>>
    /\ UNCHANGED <<breakerVars, otherVars>>

\* response.raise_for_status() passes and response.json() is returned
AttemptOk(p, body) ==
    /\ req_pc[p] = "attempt"
    /\ ExecuteReturned(p, body)
    /\ UNCHANGED <<net_attempts, sleeps, elapsed, now>>
    /\ UNCHANGED <<breakerVars, otherVars>>

\* except httpx.HTTPStatusError
AttemptHttpError(p, status_code) ==
    /\ req_pc[p] = "attempt"
    /\ IF status_code < 500
       THEN /\ ExecuteReturned(p, format_error_response(status_code))
            /\ UNCHANGED sleeps
       ELSE AttemptFailed(p, HTTPStatusError(status_code))
    /\ UNCHANGED <<net_attempts, elapsed, now>>
    /\ UNCHANGED <<breakerVars, otherVars>>

\* except httpx.TimeoutException
AttemptTimeout(p) ==
    /\ req_pc[p] = "attempt"
    /\ AttemptFailed(p, TimeoutException)
    /\ UNCHANGED <<net_attempts, elapsed, now>>
    /\ UNCHANGED <<breakerVars, otherVars>>

\* except Exception
AttemptOtherError(p) ==
    /\ req_pc[p] = "attempt"
    /\ IF attempt[p] = RETRY_ATTEMPTS - 1
       THEN /\ ExecuteReturned(p, format_error_response(500))
            /\ UNCHANGED sleeps
       ELSE AttemptFailed(p, OtherException)
    /\ UNCHANGED <<net_attempts, elapsed, now>>
    /\ UNCHANGED <<breakerVars, otherVars>>

\* asyncio.sleep(total_delay) is over: next iteration of the loop
WakeUp(p) ==
    /\ req_pc[p] = "sleep"
    /\ attempt' = [attempt EXCEPT ![p] = @ + 1]
    /\ net_attempts' = [net_attempts EXCEPT ![p] = @ + 1]
    /\ req_pc' = [req_pc EXCEPT ![p] = "attempt"]
    /\ UNCHANGED <<uspto_circuit_breaker, cache_manager, req_key,
                   last_exception, result, sleeps, lost, elapsed, now>>
    /\ UNCHANGED <<breakerVars, otherVars>>

\* uspto_circuit_breaker.call(f) for an f that raises: the only way this
\* breaker records a failure, since _execute_request catches every exception
\* of an attempt and returns a dict.
SimulatedFailure ==
    /\ ~call_rejects(uspto_circuit_breaker, now)
    /\ uspto_circuit_breaker' =
           on_failure(call_check(uspto_circuit_breaker, now), now)
    /\ UNCHANGED <<cache_manager, req_pc, req_key, attempt, last_exception,
                   result, net_attempts, sleeps, lost, elapsed, now>>
    /\ UNCHANGED <<breakerVars, otherVars>>

Elapse(d) ==
    /\ elapsed < MaxElapses
    /\ elapsed' = elapsed + 1
    /\ now' = now + d
    /\ lost' = {}
    /\ UNCHANGED <<uspto_circuit_breaker, cache_manager, req_pc, req_key,
                   attempt, last_exception, result, net_attempts, sleeps>>
    /\ UNCHANGED <<breakerVars, otherVars>>

Request ==
    \/ \E p \in Procs, k \in Keys : BeginRequest(p, k)
    \/ \E p \in Procs, body \in Bodies : AttemptOk(p, body)
    \/ \E p \in Procs, status_code \in HttpErrorStatuses :
           AttemptHttpError(p, status_code)
    \/ \E p \in Procs : AttemptTimeout(p)
    \/ \E p \in Procs : AttemptOtherError(p)
    \/ \E p \in Procs : WakeUp(p)

NextClient ==
    \/ Request /\ UNCHANGED fail_streak
    \/ SimulatedFailure /\ UNCHANGED fail_streak
    \/ \E d \in TimeSteps : Elapse(d) /\ UNCHANGED fail_streak

SpecClient == InitClient /\ [][NextClient]_vars

\* ------------------------------------------- an upstream that always fails
ServerErrorStatuses == {status_code \in HttpErrorStatuses : status_code >= 500}

\* a request that ends after its last attempt failed extends the run
CountFailure(p) ==
    fail_streak' = IF req_pc'[p] = "done" /\ fail_streak < USPTO_FAILURE_THRESHOLD
                   THEN fail_streak + 1 ELSE fail_streak

NextOutage ==
    \/ \E p \in Procs, k \in Keys : BeginRequest(p, k) /\ UNCHANGED fail_streak
    \/ \E p \in Procs, status_code \in ServerErrorStatuses :
           AttemptHttpError(p, status_code) /\ CountFailure(p)
    \/ \E p \in Procs : AttemptTimeout(p) /\ CountFailure(p)
    \/ \E p \in Procs : AttemptOtherError(p) /\ CountFailure(p)
    \/ \E p \in Procs : WakeUp(p) /\ UNCHANGED fail_streak
    \/ \E d \in TimeSteps : Elapse(d) /\ UNCHANGED fail_streak

SpecOutage == InitClient /\ [][NextOutage]_vars

\* ------------------------------------------------------- proxy: /download
InitProxy ==
    /\ Standalone
    /\ env = DefaultEnvironment
    /\ ProxyCreated
    /\ ExtractUnused
    /\ PureUnused
    /\ LateUnused

\* download_document up to its first await: the rate-limit check, and either
\* the 429 answer or the start of the petition lookup
Download(client) ==
    /\ download.pc \in {"idle", "done"}
    /\ rate_limiter' = is_allowed_effect(rate_limiter, client_ip(client), now)
    /\ IF is_allowed(rate_limiter, client_ip(client), now)
       THEN /\ download' = [NoDownload EXCEPT !.pc = "lookup", !.client = client,
                                               !.lookups = 1]
            /\ allowed_log' = [allowed_log EXCEPT ![client] = Append(@, now)]
       ELSE /\ download' =
                [NoDownload EXCEPT
                    !.pc = "done", !.client = client,
                    !.response = RateLimitExceeded(
                        retry_after(rate_limiter', client_ip(client), now))]
            /\ UNCHANGED allowed_log
    /\ UNCHANGED <<advances, exchange, now>>
    /\ UNCHANGED <<breakerVars, clientVars, extractVars, pureVars, lateVars>>

\* get_petition_by_id returned: a 404, or the StreamingResponse is returned,
\* its status line and headers are sent and stream_pdf starts the PDF fetch
LookupReturned(petition_result) ==
    /\ download.pc = "lookup"
    /\ IF lookup_status(petition_result) = 200
       THEN download' = [download EXCEPT !.pc = "stream",
                                         !.petition_result = petition_result,
                                         !.response = Response(200, "none"),
                                         !.fetches = 1]
       ELSE download' = [download EXCEPT
                            !.pc = "done",
                            !.petition_result = petition_result,
                            !.response = Response(lookup_status(petition_result),
                                                  "json")]
    /\ UNCHANGED <<rate_limiter, allowed_log, advances, exchange, now>>
    /\ UNCHANGED <<breakerVars, clientVars, extractVars, pureVars, lateVars>>

\* the upstream answers the PDF fetch inside stream_pdf: the chunks are
\* passed on, or raise_for_status() raises in the generator, after the
\* status line of the response has been sent
FetchAnswered(status_code) ==
    /\ download.pc = "stream"
    /\ download' = [download EXCEPT
                       !.pc = "done",
                       !.fetch_status = status_code,
                       !.response.body = IF status_code \in HttpErrorStatuses
                                            \/ status_code >= 400
                                         THEN "aborted" ELSE "pdf"]
    /\ UNCHANGED <<rate_limiter, allowed_log, advances, exchange, now>>
    /\ UNCHANGED <<breakerVars, clientVars, extractVars, pureVars, lateVars>>

\* time passes; the log of allowed requests forgets what left the window
Advance(d) ==
    /\ advances < MaxAdvances
    /\ advances' = advances + 1
    /\ now' = now + d
    /\ allowed_log' = [client \in RequestClients |-> Purge(allowed_log[client], now')]
    /\ UNCHANGED <<rate_limiter, download, exchange>>
    /\ UNCHANGED <<breakerVars, clientVars, extractVars, pureVars, lateVars>>

NextProxy ==
    \/ \E client \in RequestClients : Download(client)
    \/ \E petition_result \in PetitionResults : LookupReturned(petition_result)
    \/ \E status_code \in FetchStatuses : FetchAnswered(status_code)
    \/ \E d \in WindowSteps : Advance(d)

SpecProxy == InitProxy /\ [][NextProxy]_vars

\* ------------------------------------- FPDClient.extract_document_content_hybrid
InitExtract ==
    /\ Standalone
    /\ env \in Environments
    /\ ExtractIdle
    /\ ProxyUnused
    /\ PureUnused
    /\ LateUnused

\* the extraction has returned this dict
Extracted(x, res) == [x EXCEPT !.pc = "done", !.result = res]

\* extract_with_mistral_ocr up to its first await: the feature flag and the
\* key are checked, then the PDF is uploaded
ocr_start(x, e) ==
    IF ~e.mistral_ocr_enabled
    THEN Extracted([x EXCEPT !.ocr_invoked = TRUE],
                   OnValueError("Mistral OCR feature is currently disabled", e))
    ELSE IF ~e.MISTRAL_API_KEY
    THEN Extracted([x EXCEPT !.ocr_invoked = TRUE],
                   OnValueError("MISTRAL_API_KEY required for OCR extraction", e))
    ELSE [x EXCEPT !.pc = "upload", !.ocr_invoked = TRUE,
                   !.ocr_calls = @ + 1]

\* from the PDF bytes to the next await or to the return
after_pdf(x, text, e) ==
    IF x.auto_optimize
    THEN IF is_good_extraction(text)
         THEN Extracted([x EXCEPT !.parsed = TRUE, !.pypdf_text = text],
                        ExtractionResult("PyPDF2", 0))
         ELSE ocr_start([x EXCEPT !.parsed = TRUE, !.pypdf_text = text], e)
    ELSE ocr_start(x, e)

\* the call, up to `await self.get_petition_by_id`
Extract(auto_optimize) ==
    /\ extraction.pc \in {"idle", "done"}
    /\ extraction' =
          IF ~env.ocr_enabled
          THEN Extracted(NoExtraction,
                         ErrorResult(Message("OCR feature is currently disabled"),
                                     503, env))
          ELSE [NoExtraction EXCEPT !.pc = "lookup",
                                    !.auto_optimize = auto_optimize]
    /\ UNCHANGED env
    /\ UNCHANGED <<now, breakerVars, clientVars, proxyVars, pureVars, lateVars>>

\* the petition lookup returned
PetitionReturned(petition_data) ==
    /\ extraction.pc = "lookup"
    /\ extraction' =
          IF petition_data.error # "absent"
          THEN Extracted(extraction, PassedOn(petition_data))
          ELSE IF petition_data.payload \in {"no_bag", "no_doc"}
          THEN Extracted(extraction,
                         ErrorResult(Message("not found"), 404, env))
          ELSE IF centralized_configured(env)
          THEN [extraction EXCEPT !.pc = "register"]
          ELSE [extraction EXCEPT !.pc = "local"]
    /\ UNCHANGED env
    /\ UNCHANGED <<now, breakerVars, clientVars, proxyVars, pureVars, lateVars>>

\* POST /register-fpd-document answered or failed: logged, and the download
\* from the centralized proxy is tried in either case
Registered(outcome) ==
    /\ extraction.pc = "register"
    /\ extraction' = [extraction EXCEPT !.pc = "centralized",
                                        !.registration = outcome]
    /\ UNCHANGED env
    /\ UNCHANGED <<now, breakerVars, clientVars, proxyVars, pureVars, lateVars>>

\* GET /download of the centralized proxy answered or failed
CentralizedAnswered(outcome, text) ==
    /\ extraction.pc = "centralized"
    /\ LET x == [extraction EXCEPT !.centralized = outcome]
       IN  extraction' =
              IF outcome = 200 THEN after_pdf(x, text, env)
              ELSE IF outcome \in {404, TransportError}
              THEN [x EXCEPT !.pc = "local"]
              ELSE Extracted(x, OnException(env))
    /\ UNCHANGED env
    /\ UNCHANGED <<now, breakerVars, clientVars, proxyVars, pureVars, lateVars>>

\* GET /download of the local proxy answered or failed
LocalAnswered(outcome, text) ==
    /\ extraction.pc = "local"
    /\ LET x == [extraction EXCEPT !.local = outcome]
       IN  extraction' =
              IF outcome = 200 THEN after_pdf(x, text, env)
              ELSE Extracted(x, OnException(env))
    /\ UNCHANGED env
    /\ UNCHANGED <<now, breakerVars, clientVars, proxyVars, pureVars, lateVars>>

\* POST /files of the OCR service answered or failed
Uploaded(outcome) ==
    /\ extraction.pc = "upload"
    /\ extraction' =
          IF outcome = 200
          THEN [extraction EXCEPT !.pc = "ocr", !.ocr_calls = @ + 1]
          ELSE IF outcome = NoFileId
          THEN Extracted(extraction,
                   OnValueError("Failed to upload file to Mistral OCR service", env))
          ELSE IF outcome = TransportError
          THEN Extracted(extraction, OnException(env))
          ELSE Extracted(extraction,
                         OnValueError(mistral_status_error(outcome), env))
    /\ UNCHANGED env
    /\ UNCHANGED <<now, breakerVars, clientVars, proxyVars, pureVars, lateVars>>

\* POST /ocr answered, failed or ran into the operation timeout
OcrAnswered(outcome, pages_processed) ==
    /\ extraction.pc = "ocr"
    /\ extraction' =
          IF outcome = 200
          THEN Extracted(extraction,
                         ExtractionResult("Mistral OCR (mistral-ocr-latest)",
                                          pages_processed))
          ELSE IF outcome = OperationTimeout
          THEN Extracted(extraction, OnValueError("OCR operation timed out", env))
          ELSE IF outcome = TransportError
          THEN Extracted(extraction, OnException(env))
          ELSE Extracted(extraction,
                         OnValueError(mistral_status_error(outcome), env))
    /\ UNCHANGED env
    /\ UNCHANGED <<now, breakerVars, clientVars, proxyVars, pureVars, lateVars>>

NextExtract ==
    \/ \E auto_optimize \in BOOLEAN : Extract(auto_optimize)
    \/ \E petition_data \in PetitionResults : PetitionReturned(petition_data)
    \/ \E outcome \in RegistrationOutcomes : Registered(outcome)
    \/ \E outcome \in CentralizedDownloadOutcomes, text \in Texts :
           CentralizedAnswered(outcome, text)
    \/ \E outcome \in LocalDownloadOutcomes, text \in Texts :
           LocalAnswered(outcome, text)
    \/ \E outcome \in UploadOutcomes : Uploaded(outcome)
    \/ \E outcome \in OcrOutcomes, pages_processed \in PagesProcessed :
           OcrAnswered(outcome, pages_processed)

SpecExtract == InitExtract /\ [][NextExtract]_vars

\* -------------------------------------------- proxy: generate_enhanced_filename
InitFilename ==
    /\ Standalone
    /\ env = DefaultEnvironment
    /\ naming = NoFilenameCall
    /\ building = NoQueryCall
    /\ ProxyUnused
    /\ ExtractUnused
    /\ LateUnused

\* the function is called with these arguments
CallFilename(petition_mail_date, app_number, patent_number, document_description, document_code) ==
    /\ naming.pc \in {"idle", "returned"}
    /\ naming' = [NoFilenameCall EXCEPT
                     !.pc = "called",
                     !.petition_mail_date = petition_mail_date,
                     !.app_number = app_number,
                     !.patent_number = patent_number,
                     !.document_description = document_description,
                     !.document_code = document_code]
    /\ UNCHANGED building
    /\ UNCHANGED <<now, breakerVars, clientVars, proxyVars, extractVars, lateVars>>

\* the function body
ReturnFilename ==
    /\ naming.pc = "called"
    /\ naming' = [naming EXCEPT
                     !.pc = "returned",
                     !.components =
                         filename_components(
                             naming.petition_mail_date, naming.app_number,
                             naming.patent_number, naming.document_description,
                             naming.document_code),
                     !.filename =
                         generate_enhanced_filename(
                             naming.petition_mail_date, naming.app_number,
                             naming.patent_number, naming.document_description,
                             naming.document_code)]
    /\ UNCHANGED building
    /\ UNCHANGED <<now, breakerVars, clientVars, proxyVars, extractVars, lateVars>>

NextFilename ==
    \/ \E petition_mail_date \in MailDates, app_number \in AppNumbers,
          patent_number \in PatentNumbers,
          document_description \in Descriptions,
          document_code \in DocumentCodes :
             CallFilename(petition_mail_date, app_number, patent_number,
                          document_description, document_code)
    \/ ReturnFilename

SpecFilename == InitFilename /\ [][NextFilename]_vars

\* ------------------------------------------------------ proxy: middleware
InitMiddleware ==
    /\ InitProxy

\* a request arrives at the outermost layer
Receive(request) ==
    /\ exchange.pc \in {"idle", "sent"}
    /\ exchange' = [NoExchange EXCEPT !.pc = "down", !.request = request,
                                      !.layer = 1]
    /\ UNCHANGED <<rate_limiter, download, allowed_log, advances>>
    /\ UNCHANGED <<now, breakerVars, clientVars, extractVars, pureVars, lateVars>>

\* the layer the request has reached answers it itself or calls the next one
Enter ==
    /\ exchange.pc = "down"
    /\ exchange.layer <= Len(user_middleware)
    /\ LET cls == user_middleware[exchange.layer]
       IN  exchange' =
              IF cls = "CORSMiddleware" /\ is_preflight(exchange.request)
              THEN [exchange EXCEPT
                       !.pc = "up", !.layer = @ - 1, !.answered_by = cls,
                       !.response = preflight_response(exchange.request)]
              ELSE IF cls = "RequestSizeLimitMiddleware"
                      /\ too_large(exchange.request)
              THEN [exchange EXCEPT
                       !.pc = "up", !.layer = @ - 1, !.answered_by = cls,
                       !.response = HttpResponse(413, {})]
              ELSE [exchange EXCEPT !.layer = @ + 1]
    /\ UNCHANGED <<rate_limiter, download, allowed_log, advances>>
    /\ UNCHANGED <<now, breakerVars, clientVars, extractVars, pureVars, lateVars>>

\* the request is past the middleware: a route or an exception handler answers
Route(status_code) ==
    /\ exchange.pc = "down"
    /\ exchange.layer = Len(user_middleware) + 1
    /\ exchange' = [exchange EXCEPT
                       !.pc = "up", !.layer = @ - 1, !.answered_by = "route",
                       !.response = HttpResponse(status_code, {})]
    /\ UNCHANGED <<rate_limiter, download, allowed_log, advances>>
    /\ UNCHANGED <<now, breakerVars, clientVars, extractVars, pureVars, lateVars>>

\* the response passes a layer on its way out; past the outermost it is sent
Leave ==
    /\ exchange.pc = "up"
    /\ exchange' =
          IF exchange.layer = 0 THEN [exchange EXCEPT !.pc = "sent"]
          ELSE [exchange EXCEPT
                   !.layer = @ - 1,
                   !.response = on_response(user_middleware[exchange.layer],
                                            exchange.request, @)]
    /\ UNCHANGED <<rate_limiter, download, allowed_log, advances>>
    /\ UNCHANGED <<now, breakerVars, clientVars, extractVars, pureVars, lateVars>>

NextMiddleware ==
    \/ \E request \in HttpRequests : Receive(request)
    \/ Enter
    \/ \E status_code \in RouteStatuses : Route(status_code)
    \/ Leave

SpecMiddleware == InitMiddleware /\ [][NextMiddleware]_vars

\* ------------------------------------------------ _build_convenience_query
InitQuery ==
    /\ InitFilename

\* the function is called with these arguments
CallQuery(args) ==
    /\ building.pc = "idle"
    /\ building' = [NoQueryCall EXCEPT !.pc = "called", !.args = args]
    /\ UNCHANGED naming
    /\ UNCHANGED <<now, breakerVars, clientVars, proxyVars, extractVars, lateVars>>

\* the function body: it raises, or returns the joined query
ReturnQuery ==
    /\ building.pc = "called"
    /\ LET b == build_query_parts(building.args)
       IN  building' =
              [building EXCEPT
                  !.pc = "returned",
                  !.raised = b.raised,
                  !.query_parts = IF b.raised = NoError THEN b.query_parts
                                  ELSE << >>,
                  !.final_query = IF b.raised = NoError
                                  THEN final_query(b.query_parts) ELSE << >>]
    /\ UNCHANGED naming
    /\ UNCHANGED <<now, breakerVars, clientVars, proxyVars, extractVars, lateVars>>

\* the caller has used the result
ForgetQuery ==
    /\ building.pc = "returned"
    /\ building' = NoQueryCall
    /\ UNCHANGED naming
    /\ UNCHANGED <<now, breakerVars, clientVars, proxyVars, extractVars, lateVars>>

NextQuery ==
    \/ \E args \in QueryArguments : CallQuery(args)
    \/ ReturnQuery
    \/ ForgetQuery

SpecQuery == InitQuery /\ [][NextQuery]_vars

\* ------------------------------------------------ FPDClient: its two breakers
InitPair ==
    /\ Standalone
    /\ env = DefaultEnvironment
    /\ objects = FPDClient_objects
    /\ pair_pc = [name \in BreakerNames |-> "idle"]
    /\ ProxyUnused
    /\ ExtractUnused
    /\ PureUnused
    /\ OcrUnused
    /\ CacheUnused
    /\ KeyUnused
    /\ GateUnused

\* self.<name>.call(func) up to `await func(...)`
PairEnter(name) ==
    /\ pair_pc[name] # "running"
    /\ IF call_rejects(breaker(name), now)
       THEN /\ pair_pc' = [pair_pc EXCEPT ![name] = "circuit_open"]
            /\ UNCHANGED objects
       ELSE /\ objects' = with_breaker(name, call_check(breaker(name), now))
            /\ pair_pc' = [pair_pc EXCEPT ![name] = "running"]
    /\ UNCHANGED <<now, breakerVars, clientVars, proxyVars, extractVars, pureVars>>
    /\ UNCHANGED <<probeVars, ocrVars, cacheVars, keyVars, gateVars>>

\* the function wrapped by self.<name>.call returns: _on_success
PairReturn(name) ==
    /\ pair_pc[name] = "running"
    /\ objects' = with_breaker(name, on_success(breaker(name)))
    /\ pair_pc' = [pair_pc EXCEPT ![name] = "returned"]
    /\ UNCHANGED <<now, breakerVars, clientVars, proxyVars, extractVars, pureVars>>
    /\ UNCHANGED <<probeVars, ocrVars, cacheVars, keyVars, gateVars>>

\* the function wrapped by self.<name>.call raises: _on_failure
PairRaise(name) ==
    /\ pair_pc[name] = "running"
    /\ objects' = with_breaker(name, on_failure(breaker(name), now))
    /\ pair_pc' = [pair_pc EXCEPT ![name] = "raised"]
    /\ UNCHANGED <<now, breakerVars, clientVars, proxyVars, extractVars, pureVars>>
    /\ UNCHANGED <<probeVars, ocrVars, cacheVars, keyVars, gateVars>>

PairElapse(d) ==
    /\ now + d <= MaxElapses * (USPTO_RECOVERY_TIMEOUT + 1)
    /\ now' = now + d
    /\ UNCHANGED <<objects, pair_pc>>
    /\ UNCHANGED <<breakerVars, clientVars, proxyVars, extractVars, pureVars>>
    /\ UNCHANGED <<probeVars, ocrVars, cacheVars, keyVars, gateVars>>

NextPair ==
    \/ \E name \in BreakerNames : PairEnter(name)
    \/ \E name \in BreakerNames : PairReturn(name)
    \/ \E name \in BreakerNames : PairRaise(name)
    \/ \E d \in PairSteps : PairElapse(d)

SpecPair == InitPair /\ [][NextPair]_vars

\* ------------------------------------------------ extract_with_mistral_ocr
InitOcr ==
    /\ Standalone
    /\ env \in OcrEnvironments
    /\ ocr = NoOcrCall
    /\ objects = FPDClient_objects
    /\ pair_pc = [name \in BreakerNames |-> "idle"]
    /\ ProxyUnused
    /\ ExtractUnused
    /\ PureUnused
    /\ CacheUnused
    /\ KeyUnused
    /\ GateUnused

\* the call raises: a failed call, if the OCR service was contacted
OcrRaised(message) ==
    ocr' = [ocr EXCEPT
               !.pc = "raised", !.raised = message,
               !.failed_in_row =
                   IF ocr.contacted > 0 /\ @ < MISTRAL_FAILURE_THRESHOLD
                   THEN @ + 1 ELSE @]

\* lines 493-536: the feature flag, the API key, then the upload is sent
OcrCall(pageCount, document_pages) ==
    /\ ocr.pc = "idle"
    /\ LET call == [ocr EXCEPT !.page_count = page_count_of(pageCount),
                               !.document_pages = document_pages]
       IN  IF ~env.mistral_ocr_enabled
           THEN ocr' = [call EXCEPT
                           !.pc = "raised",
                           !.raised = "Mistral OCR feature is currently disabled"]
           ELSE IF ~env.MISTRAL_API_KEY
           THEN ocr' = [call EXCEPT
                           !.pc = "raised",
                           !.raised = "MISTRAL_API_KEY required for OCR extraction"]
           ELSE ocr' = [call EXCEPT !.pc = "upload", !.contacted = 1]
    /\ UNCHANGED <<now, env, extraction>>
    /\ UNCHANGED <<breakerVars, clientVars, proxyVars, pureVars, probeVars, pairVars, cacheVars, keyVars, gateVars>>

\* lines 537-566: the answer to the upload; the OCR request is sent
OcrUpload(outcome) ==
    /\ ocr.pc = "upload"
    /\ IF outcome = 200
       THEN ocr' = [ocr EXCEPT !.pc = "ocr", !.contacted = 2,
                               !.pages = ocr_pages(ocr.page_count)]
       ELSE IF outcome = NoFileId
       THEN OcrRaised("Failed to upload file to Mistral OCR service")
       ELSE IF outcome = TransportError
       THEN OcrRaised("transport error")
       ELSE OcrRaised(mistral_status_error(outcome))
    /\ UNCHANGED <<now, env, extraction>>
    /\ UNCHANGED <<breakerVars, clientVars, proxyVars, pureVars, probeVars, pairVars, cacheVars, keyVars, gateVars>>

\* lines 567-598: the answer to the OCR request
OcrProcess(outcome) ==
    /\ ocr.pc = "ocr"
    /\ IF outcome = 200
       THEN ocr' = [ocr EXCEPT
                       !.pc = "returned",
                       !.pages_processed =
                           pages_processed_of(ocr.pages, ocr.document_pages),
                       !.estimated_cost =
                           pages_processed_of(ocr.pages, ocr.document_pages),
                       !.failed_in_row = 0]
       ELSE IF outcome = OperationTimeout
       THEN OcrRaised("OCR operation timed out")
       ELSE IF outcome = TransportError
       THEN OcrRaised("transport error")
       ELSE OcrRaised(mistral_status_error(outcome))
    /\ UNCHANGED <<now, env, extraction>>
    /\ UNCHANGED <<breakerVars, clientVars, proxyVars, pureVars, probeVars, pairVars, cacheVars, keyVars, gateVars>>

\* the caller has used the result or handled the exception
OcrForget ==
    /\ ocr.pc \in {"returned", "raised"}
    /\ ocr' = [NoOcrCall EXCEPT !.failed_in_row = ocr.failed_in_row]
    /\ UNCHANGED <<now, env, extraction>>
    /\ UNCHANGED <<breakerVars, clientVars, proxyVars, pureVars, probeVars, pairVars, cacheVars, keyVars, gateVars>>

NextOcr ==
    \/ \E pageCount \in PageCounts, document_pages \in DocumentPages :
           OcrCall(pageCount, document_pages)
    \/ \E outcome \in UploadOutcomes : OcrUpload(outcome)
    \/ \E outcome \in OcrOutcomes : OcrProcess(outcome)
    \/ OcrForget

SpecOcr == InitOcr /\ [][NextOcr]_vars

\* ------------------------------------------------- SimpleCache used directly
InitCache ==
    /\ Standalone
    /\ env = DefaultEnvironment
    /\ \E maxsize \in 1..(CacheMaxSize + 1) :
           simple_cache = SimpleCacheOf(CacheKeys, maxsize, DEFAULT_CACHE_TTL_SECONDS)
    /\ cache_op = NoCacheOp
    /\ cache_ops = 0
    /\ last_use = [k \in CacheKeys |-> 0]
    /\ ProxyUnused
    /\ ExtractUnused
    /\ PureUnused
    /\ PairUnused
    /\ OcrUnused
    /\ KeyUnused
    /\ GateUnused

\* SimpleCache.set(key, value)
CacheSet(key, value) ==
    /\ cache_ops < MaxCacheOps
    /\ simple_cache' = SimpleCache_set(simple_cache, key, value, now)
    /\ cache_op' = [op |-> "set", key |-> key]
    /\ cache_ops' = cache_ops + 1
    /\ last_use' = [last_use EXCEPT ![key] = cache_ops + 1]
    /\ UNCHANGED <<now, breakerVars, clientVars, proxyVars, extractVars, pureVars>>
    /\ UNCHANGED <<probeVars, pairVars, ocrVars, keyVars, gateVars>>

\* SimpleCache.get(key)
CacheGet(key) ==
    /\ cache_ops < MaxCacheOps
    /\ simple_cache' = SimpleCache_touch(simple_cache, key, now)
    /\ cache_op' = [op |-> "get", key |-> key]
    /\ cache_ops' = cache_ops + 1
    /\ last_use' = IF SimpleCache_get(simple_cache, key, now) # None
                   THEN [last_use EXCEPT ![key] = cache_ops + 1]
                   ELSE last_use
    /\ UNCHANGED <<now, breakerVars, clientVars, proxyVars, extractVars, pureVars>>
    /\ UNCHANGED <<probeVars, pairVars, ocrVars, keyVars, gateVars>>

\* SimpleCache.clear()
CacheClear ==
    /\ cache_ops < MaxCacheOps
    /\ simple_cache' = SimpleCache_clear(simple_cache)
    /\ cache_op' = [op |-> "clear", key |-> 0]
    /\ cache_ops' = cache_ops + 1
    /\ UNCHANGED last_use
    /\ UNCHANGED <<now, breakerVars, clientVars, proxyVars, extractVars, pureVars>>
    /\ UNCHANGED <<probeVars, pairVars, ocrVars, keyVars, gateVars>>

CacheElapse(d) ==
    /\ cache_ops < MaxCacheOps
    /\ now' = now + d
    /\ cache_op' = [op |-> "elapse", key |-> 0]
    /\ cache_ops' = cache_ops + 1
    /\ UNCHANGED <<simple_cache, last_use>>
    /\ UNCHANGED <<breakerVars, clientVars, proxyVars, extractVars, pureVars>>
    /\ UNCHANGED <<probeVars, pairVars, ocrVars, keyVars, gateVars>>

NextCache ==
    \/ \E key \in CacheKeys : CacheSet(key, Dict("P1", "absent"))
    \/ \E key \in CacheKeys : CacheGet(key)
    \/ CacheClear
    \/ \E d \in CacheSteps : CacheElapse(d)

SpecCache == InitCache /\ [][NextCache]_vars

\* --------------------------------------------- cache keys of two requests
InitKey ==
    /\ Standalone
    /\ env = DefaultEnvironment
    /\ keyed = NoKeyed
    /\ ProxyUnused
    /\ ExtractUnused
    /\ PureUnused
    /\ PairUnused
    /\ OcrUnused
    /\ CacheUnused
    /\ GateUnused

\* cache_manager.set(cache_key, result, **kwargs) for a result that is kept
KeySet(call) ==
    /\ keyed.pc = "idle"
    /\ keyed' = [keyed EXCEPT !.pc = "set", !.first = call,
                              !.stored = request_cache_key(call)]
    /\ UNCHANGED <<now, breakerVars, clientVars, proxyVars, extractVars, pureVars>>
    /\ UNCHANGED <<probeVars, pairVars, ocrVars, cacheVars, gateVars>>

\* cache_manager.get(cache_key, **kwargs): a hit if the entry is stored
\* under the key derived now
KeyGet(call) ==
    /\ keyed.pc = "set"
    /\ keyed' = [keyed EXCEPT !.pc = "got", !.second = call,
                              !.hit = (request_cache_key(call) = keyed.stored)]
    /\ UNCHANGED <<now, breakerVars, clientVars, proxyVars, extractVars, pureVars>>
    /\ UNCHANGED <<probeVars, pairVars, ocrVars, cacheVars, gateVars>>

\* the cache is cleared and both calls are forgotten
KeyForget ==
    /\ keyed.pc = "got"
    /\ keyed' = NoKeyed
    /\ UNCHANGED <<now, breakerVars, clientVars, proxyVars, extractVars, pureVars>>
    /\ UNCHANGED <<probeVars, pairVars, ocrVars, cacheVars, gateVars>>

NextKey ==
    \/ \E call \in KeyCalls : KeySet(call)
    \/ \E call \in KeyCalls : KeyGet(call)
    \/ KeyForget

SpecKey == InitKey /\ [][NextKey]_vars

\* ------------------------------------- concurrent _make_request calls
InitGate ==
    /\ Standalone
    /\ env = DefaultEnvironment
    /\ GateConstructed
    /\ ProxyUnused
    /\ ExtractUnused
    /\ PureUnused
    /\ PairUnused
    /\ OcrUnused
    /\ CacheUnused
    /\ KeyUnused

\* _execute_request returns res (lines 129-198): the permit is given back,
\* CircuitBreaker.call runs _on_success, and _make_request caches res if it
\* is truthy and has no "error" (lines 202-210).
GateReturned(r, res, ended) ==
    /\ uspto_semaphore' = release(uspto_semaphore)
    /\ gate_client' =
           [gate_client EXCEPT
                !.uspto_circuit_breaker = on_success(@),
                !.cached = IF res.error = "absent" THEN res ELSE @]
    /\ gate' = [gate EXCEPT ![r] = [GateIdle EXCEPT !.pc = "done",
                                                    !.result = res,
                                                    !.ended = ended,
                                                    !.waited = gate[r].waited]]

\* a retryable error: back off, or leave the loop after the last attempt
GateFailed(r, exc) ==
    IF gate[r].attempt < RETRY_ATTEMPTS - 1
    THEN /\ gate' = [gate EXCEPT ![r].pc = "sleep", ![r].last_exception = exc]
         /\ UNCHANGED <<uspto_semaphore, gate_client>>
    ELSE GateReturned(r, retries_failed(exc, r), "exhausted")

\* _make_request is called; r is the request id it generates.  Up to the
\* first suspension: the breaker's check, then either the fallback of lines
\* 212-242, or the semaphore, taken at once or queued for.  The breaker
\* stays CLOSED here: _execute_request returns a dict for every exception
\* of an attempt, so call() never sees a failure.
GateBegin(r) ==
    /\ gate[r].pc = "idle"
    /\ IF call_rejects(gate_client.uspto_circuit_breaker, now)
       THEN /\ gate' = [gate EXCEPT
                   ![r].pc = "done",
                   ![r].ended = "rejected",
                   ![r].result =
                       IF gate_client.cached # NoGateResult
                       THEN cached_copy(gate_client.cached, r)
                       ELSE structured_error(503, r)]
            /\ UNCHANGED <<uspto_semaphore, gate_client>>
       ELSE /\ gate_client' =
                   [gate_client EXCEPT
                        !.uspto_circuit_breaker = call_check(@, now)]
            /\ IF locked(uspto_semaphore)
               THEN /\ uspto_semaphore' = acquire_wait(uspto_semaphore, r)
                    /\ gate' = [gate EXCEPT ![r].pc = "waiting",
                                             ![r].waited = TRUE]
               ELSE /\ uspto_semaphore' = acquire_free(uspto_semaphore)
                    /\ gate' = [gate EXCEPT ![r].pc = "attempt"]
    /\ UNCHANGED <<now, breakerVars, clientVars, proxyVars, extractVars, pureVars>>
    /\ UNCHANGED <<probeVars, pairVars, ocrVars, cacheVars, keyVars>>

\* a woken waiter runs: acquire() returns and the first attempt starts
GateResume(r) ==
    /\ gate[r].pc = "waiting"
    /\ r \in uspto_semaphore.woken
    /\ uspto_semaphore' = acquire_woken(uspto_semaphore, r)
    /\ gate' = [gate EXCEPT ![r].pc = "attempt"]
    /\ UNCHANGED gate_client
    /\ UNCHANGED <<now, breakerVars, clientVars, proxyVars, extractVars, pureVars>>
    /\ UNCHANGED <<probeVars, pairVars, ocrVars, cacheVars, keyVars>>

\* response.raise_for_status() passes and response.json() is returned
GateOk(r, body) ==
    /\ gate[r].pc = "attempt"
    /\ GateReturned(r, body, "answered")
    /\ UNCHANGED <<now, breakerVars, clientVars, proxyVars, extractVars, pureVars>>
    /\ UNCHANGED <<probeVars, pairVars, ocrVars, cacheVars, keyVars>>

\* except httpx.HTTPStatusError
GateHttpError(r, status_code) ==
    /\ gate[r].pc = "attempt"
    /\ IF status_code < 500
       THEN GateReturned(r, structured_error(status_code, r), "refused")
       ELSE GateFailed(r, HTTPStatusError(status_code))
    /\ UNCHANGED <<now, breakerVars, clientVars, proxyVars, extractVars, pureVars>>
    /\ UNCHANGED <<probeVars, pairVars, ocrVars, cacheVars, keyVars>>

\* except httpx.TimeoutException
GateTimeout(r) ==
    /\ gate[r].pc = "attempt"
    /\ GateFailed(r, TimeoutException)
    /\ UNCHANGED <<now, breakerVars, clientVars, proxyVars, extractVars, pureVars>>
    /\ UNCHANGED <<probeVars, pairVars, ocrVars, cacheVars, keyVars>>

\* except Exception
GateOtherError(r) ==
    /\ gate[r].pc = "attempt"
    /\ IF gate[r].attempt = RETRY_ATTEMPTS - 1
       THEN GateReturned(r, structured_error(500, r), "exhausted")
       ELSE GateFailed(r, OtherException)
    /\ UNCHANGED <<now, breakerVars, clientVars, proxyVars, extractVars, pureVars>>
    /\ UNCHANGED <<probeVars, pairVars, ocrVars, cacheVars, keyVars>>

\* asyncio.sleep(total_delay) is over: next iteration of the loop
GateWakeUp(r) ==
    /\ gate[r].pc = "sleep"
    /\ gate' = [gate EXCEPT ![r].pc = "attempt", ![r].attempt = @ + 1]
    /\ UNCHANGED <<uspto_semaphore, gate_client>>
    /\ UNCHANGED <<now, breakerVars, clientVars, proxyVars, extractVars, pureVars>>
    /\ UNCHANGED <<probeVars, pairVars, ocrVars, cacheVars, keyVars>>

\* the steps of request r after its call began
GateStep(r) ==
    \/ GateResume(r)
    \/ \E body \in GateBodies : GateOk(r, body)
    \/ \E status_code \in HttpErrorStatuses : GateHttpError(r, status_code)
    \/ GateTimeout(r)
    \/ GateOtherError(r)
    \/ GateWakeUp(r)

NextGate ==
    \/ \E r \in GateRequests : GateBegin(r)
    \/ \E r \in GateRequests : GateStep(r)

SpecGate == InitGate /\ [][NextGate]_vars

\* every attempt returns or times out, every sleep ends, and the event loop
\* runs every task that is ready
SpecGateFair == SpecGate /\ \A r \in GateRequests : WF_vars(GateStep(r))

\* ------------------------------------------------------------- C1 .. C4
\* C1: calls one at a time, breaker CLOSED with threshold F: the wrapped-call
\* failure that makes F failures since the latest success opens the breaker
\* and stamps last_failure_time; a failure that leaves the run shorter than F
\* keeps it CLOSED; a success while CLOSED resets failure_count to 0 (so the
\* run of failures starts again from zero).
C1_FailuresOpenAtThreshold ==
    [][\A c \in Callers :
        /\ (CallRaise(c) /\ cb.state = "CLOSED" /\ streak + 1 >= cb.failure_threshold)
              => (cb'.state = "OPEN" /\ cb'.last_failure_time = now)
        /\ (CallRaise(c) /\ cb.state = "CLOSED" /\ streak + 1 < cb.failure_threshold)
              => (cb'.state = "CLOSED" /\ cb'.failure_count = streak + 1)
        /\ (CallReturn(c) /\ cb.state = "CLOSED")
              => (cb'.state = "CLOSED" /\ cb'.failure_count = 0)
      ]_vars

C1_Witness ==
    /\ cb.state = "OPEN"
    /\ cb.failure_threshold >= 2
    /\ streak = cb.failure_threshold
    /\ cb.last_failure_time = now
    /\ \E c \in Callers : call_result[c] = "raised"

\* C2: a call() made while the breaker is OPEN and at most recovery_timeout
\* seconds after last_failure_time ends with the circuit-open error, never
\* enters the wrapped function, and changes no attribute of the breaker.
C2_OpenRejectsWithoutCalling ==
    [][\A c \in Callers :
        (CallEnter(c) /\ cb.state = "OPEN" /\ cb.last_failure_time # NoTime
                      /\ now - cb.last_failure_time <= cb.recovery_timeout)
          => (call_result'[c] = "circuit_open" /\ call_pc'[c] = "idle" /\ cb' = cb)
      ]_vars

C2_Witness ==
    /\ cb.state = "OPEN"
    /\ now - cb.last_failure_time = cb.recovery_timeout
    /\ \E c \in Callers : call_result[c] = "circuit_open" /\ call_pc[c] = "idle"

\* C3: a call() made while the breaker is OPEN and more than recovery_timeout
\* seconds after last_failure_time moves it to HALF_OPEN and enters the
\* wrapped function; a wrapped call that fails while the breaker is HALF_OPEN
\* moves it to OPEN with success_count = 0.
C3_ProbeAfterTimeoutAndReopen ==
    [][\A c \in Callers :
        /\ (CallEnter(c) /\ cb.state = "OPEN" /\ cb.last_failure_time # NoTime
                         /\ now - cb.last_failure_time > cb.recovery_timeout)
              => (cb'.state = "HALF_OPEN" /\ call_pc'[c] = "running")
        /\ (CallRaise(c) /\ cb.state = "HALF_OPEN")
              => (cb'.state = "OPEN" /\ cb'.success_count = 0
                                     /\ cb'.last_failure_time = now)
      ]_vars

C3_Witness ==
    /\ cb.state = "OPEN"
    /\ half_successes \in {1, 2}
    /\ cb.success_count = 0
    /\ \E c \in Callers : call_result[c] = "raised"

\* C4: while the breaker is HALF_OPEN, the third wrapped call to succeed since
\* it became HALF_OPEN closes it with failure_count = 0 and success_count = 0;
\* the first and the second leave it HALF_OPEN.
C4_ThirdSuccessCloses ==
    [][\A c \in Callers :
        (CallReturn(c) /\ cb.state = "HALF_OPEN")
          => IF half_successes + 1 >= 3
             THEN cb'.state = "CLOSED" /\ cb'.failure_count = 0
                                       /\ cb'.success_count = 0
             ELSE cb'.state = "HALF_OPEN" /\ cb'.success_count = half_successes + 1
      ]_vars

C4_Witness ==
    /\ cb.state = "CLOSED"
    /\ half_successes = 3
    /\ cb.failure_count = 0
    /\ cb.success_count = 0
    /\ \E c \in Callers : call_result[c] = "returned"

\* ------------------------------------------------------------- C5 .. C10
\* C5: against an upstream that fails every attempt, once 5 requests in a
\* row have ended with their retries exhausted the USPTO_API breaker is OPEN
\* (so that the next request is answered 503 without a network attempt).
C5_BreakerOpensAfterFiveFailedRequests ==
    fail_streak >= USPTO_FAILURE_THRESHOLD
        => uspto_circuit_breaker.state = "OPEN"

\* C6 as stated: a value V was stored for the key, its TTL has not elapsed and
\* the breaker rejects the call: the call returns V with the cached and
\* circuit-open marks, not an error, and starts no network attempt.  (A value
\* stored with its TTL running is either held by the cache or lost.)
C6_StoredValueServedWhenOpen ==
    [][\A p \in Procs, k \in Keys :
        (/\ BeginRequest(p, k)
         /\ call_rejects(uspto_circuit_breaker, now)
         /\ \/ k \in lost
            \/ /\ cache_manager.cache.cache[k].present
               /\ now < cache_manager.cache.cache[k].expiry_time)
          => (/\ result'[p].cached
              /\ result'[p].circuit_open
              /\ result'[p].error # "truthy"
              /\ cache_manager.cache.cache[k].present
                    => result'[p].payload = cache_manager.cache.cache[k].value.payload
              /\ net_attempts'[p] = 0)
      ]_vars

\* C6 amended: the same, for a value V that the cache still holds (it has not
\* been evicted by the capacity bound since it was stored).
C6_HeldValueServedWhenOpen ==
    [][\A p \in Procs, k \in Keys :
        (/\ BeginRequest(p, k)
         /\ call_rejects(uspto_circuit_breaker, now)
         /\ cache_manager.cache.cache[k].present
         /\ now < cache_manager.cache.cache[k].expiry_time)
          => (/\ result'[p] = [cache_manager.cache.cache[k].value
                                  EXCEPT !.cached = TRUE, !.circuit_open = TRUE]
              /\ result'[p].error # "truthy"
              /\ req_pc'[p] = "done"
              /\ net_attempts'[p] = 0
              /\ uspto_circuit_breaker' = uspto_circuit_breaker)
      ]_vars

C6_Witness ==
    /\ uspto_circuit_breaker.state = "OPEN"
    /\ \E p \in Procs :
          /\ req_pc[p] = "done"
          /\ result[p].cached
          /\ result[p].circuit_open
          /\ result[p].payload = "P1"
          /\ net_attempts[p] = 0

C8_ClientErrorNotRetried ==
    [][\A p \in Procs, status_code \in HttpErrorStatuses :
        (AttemptHttpError(p, status_code) /\ status_code < 500)
          => (/\ req_pc'[p] = "done"
              /\ result'[p].error = "truthy"
              /\ result'[p].status_code = status_code
              /\ net_attempts'[p] = attempt[p] + 1
              /\ sleeps'[p] = attempt[p])
      ]_vars

C8_Witness ==
    \E p \in Procs :
        /\ req_pc[p] = "done"
        /\ result[p].status_code = 404
        /\ net_attempts[p] = 1
        /\ sleeps[p] = 0

\* C9: a retryable failure (timeout, HTTP 5xx, other exception) of an attempt
\* before the last is followed by one backoff sleep; a retryable failure of
\* attempt RETRY_ATTEMPTS ends the request with RETRY_ATTEMPTS network
\* attempts and RETRY_ATTEMPTS - 1 sleeps made, and the status of the error
\* response is 408 for a timeout, the upstream status for an HTTP error and
\* 500 otherwise.
C9_Exhausted(p, status_code) ==
    /\ req_pc'[p] = "done"
    /\ result'[p].error = "truthy"
    /\ result'[p].status_code = status_code
    /\ net_attempts'[p] = RETRY_ATTEMPTS
    /\ sleeps'[p] = RETRY_ATTEMPTS - 1

C9_Backoff(p) ==
    /\ req_pc'[p] = "sleep"
    /\ net_attempts'[p] = attempt[p] + 1
    /\ sleeps'[p] = attempt[p] + 1

C9_RetriesExhausted ==
    [][\A p \in Procs :
        /\ AttemptTimeout(p)
             => IF attempt[p] = RETRY_ATTEMPTS - 1
                THEN C9_Exhausted(p, 408) ELSE C9_Backoff(p)
        /\ AttemptOtherError(p)
             => IF attempt[p] = RETRY_ATTEMPTS - 1
                THEN C9_Exhausted(p, 500) ELSE C9_Backoff(p)
        /\ \A status_code \in HttpErrorStatuses :
             (AttemptHttpError(p, status_code) /\ status_code >= 500)
               => IF attempt[p] = RETRY_ATTEMPTS - 1
                  THEN C9_Exhausted(p, status_code) ELSE C9_Backoff(p)
      ]_vars

C9_Witness ==
    \E p \in Procs :
        /\ req_pc[p] = "done"
        /\ result[p].status_code = 408
        /\ net_attempts[p] = 3
        /\ sleeps[p] = 2

\* C10: no value held by the response cache has a truthy "error" field.
C10_CacheHoldsNoErrors ==
    \A k \in Keys :
        cache_manager.cache.cache[k].present
            => cache_manager.cache.cache[k].value.error # "truthy"

C10_Witness ==
    /\ \E p \in Procs :
          /\ req_pc[p] = "done"
          /\ result[p] = Dict("P1", "truthy")
    /\ \E k \in Keys : cache_manager.cache.cache[k].present

\* ------------------------------------------------------------ C11 .. C12
\* a /download request of this client passes the rate-limit check in this step
C11_Checked(client) ==
    /\ download.pc \in {"idle", "done"}
    /\ download' # download
    /\ download'.client = client

\* the requests of this client that were allowed within the window ending now
C11_InWindow(client) == Len(Purge(allowed_log[client], now))

\* C11: for each client independently, at most max_requests (5) checks are
\* allowed within any window of window_seconds (10 s); a check is allowed
\* exactly when fewer than 5 of the same client's checks were allowed in the
\* window that ends at the check (so after 5 the answer is false until the
\* oldest one has left the window), and a check of one client changes neither
\* the record nor the next answer of another client.
C11_RateLimitPerClient ==
    /\ [](\A client \in RequestClients :
              C11_InWindow(client) <= USPTO_MAX_DOWNLOADS_PER_WINDOW)
    /\ [][\A client \in RequestClients :
              C11_Checked(client) =>
                 /\ download'.pc = "lookup"
                      <=> C11_InWindow(client) < USPTO_MAX_DOWNLOADS_PER_WINDOW
                 /\ download'.pc = "done" => download'.response.status_code = 429
                 /\ \A other \in RequestClients \ {client} :
                       /\ allowed_log'[other] = allowed_log[other]
                       /\ is_allowed(rate_limiter', client_ip(other), now)
                            = is_allowed(rate_limiter, client_ip(other), now)]_vars

\* a client is refused while its fifth-oldest allowed request is exactly one
\* window old, and the other client has been served meanwhile
C11_Witness ==
    /\ download.pc = "done"
    /\ download.response.status_code = 429
    /\ Len(allowed_log[download.client]) = USPTO_MAX_DOWNLOADS_PER_WINDOW
    /\ now - Head(allowed_log[download.client]) = USPTO_RATE_LIMIT_WINDOW_SECONDS
    /\ \E other \in RequestClients \ {download.client} : allowed_log[other] # << >>

\* C12: a /download request refused by the rate limiter is answered 429 with
\* Retry-After >= 1 and remaining_requests = 0, and no petition lookup and no
\* PDF fetch is started for it.
C12_DeniedIs429BeforeLookup ==
    /\ [](download.response.status_code = 429 =>
              /\ download.pc = "done"
              /\ download.response.retry_after >= 1
              /\ download.response.remaining_requests = 0
              /\ download.lookups = 0
              /\ download.fetches = 0)
    /\ [][\A client \in RequestClients :
              (C11_Checked(client)
                   /\ ~is_allowed(rate_limiter, client_ip(client), now))
                 => /\ download'.response.status_code = 429
                    /\ download'.lookups = 0
                    /\ download'.fetches = 0]_vars

\* refused at the instant the oldest timestamp is about to leave the window:
\* the computed waiting time is 0 and Retry-After is 1
C12_Witness ==
    /\ download.pc = "done"
    /\ download.response.status_code = 429
    /\ download.response.retry_after = 1
    /\ get_reset_time(rate_limiter, client_ip(download.client), now) = now

\* ------------------------------------------------------------ C16 .. C17
\* the lookup failed although nothing says the petition does not exist:
\* a 5xx answer or a timeout after the retries, an open circuit without a
\* cached value
C16_UpstreamFailure(petition_result) ==
    /\ GetError(petition_result)
    /\ petition_result.status_code \in {408, 500, 503}

\* C16: /download answers 404 only when the petition, the document in it or
\* its PDF download option is absent; a petition lookup that failed for
\* another reason is answered with an upstream-failure status (502 or 503).
C16_NotFoundOnlyWhenAbsent ==
    download.pc = "done" /\ download.lookups = 1 =>
        /\ download.response.status_code = 404 =>
               \/ download.petition_result = format_error_response(404)
               \/ /\ ~GetError(download.petition_result)
                  /\ download.petition_result.payload
                         \in {"no_bag", "no_doc", "no_pdf", "no_url"}
        /\ C16_UpstreamFailure(download.petition_result) =>
               download.response.status_code \in {502, 503}

\* C17: when the upstream rejects the PDF fetch (403 or another HTTP error
\* status) the client of the proxy receives 502, never 200.
C17_FailedFetchIs502 ==
    (download.pc = "done" /\ download.fetches = 1 /\ download.fetch_status >= 400)
        => download.response.status_code = 502

\* ------------------------------------------------------------ C13 .. C14
\* the quality heuristic as the claim words it
C13_PassesQuality(text) ==
    /\ text.len >= 100
    /\ text.garbled * 100 <= 30 * text.len
    /\ text.words >= 20

C14_NotConfigured(e) ==
    OnValueError("MISTRAL_API_KEY required for OCR extraction", e)

\* C14: when the local text fails the quality check, the error returned for
\* a failed OCR request (401, 402, another status, timeout) differs, in
\* status code or in message, from the error returned when OCR is needed
\* but no key is configured.
C14_OcrFailureDistinctFromNoKey ==
    (/\ extraction.pc = "done"
     /\ extraction.parsed
     /\ ~extraction.result.success
     /\ extraction.ocr_calls > 0)
        => <<extraction.result.status_code, extraction.result.error>>
              # <<C14_NotConfigured(env).status_code, C14_NotConfigured(env).error>>

\* ------------------------------------------------------------------- C18
\* C18: with a centralized proxy configured, after a registration that failed
\* or was answered with a status other than 200 the extraction goes on
\* through the local proxy: it does not end with the answer of the
\* centralized proxy as its error, the local proxy never asked.
C18_RegistrationFailureFallsBack ==
    (/\ extraction.pc = "done"
     /\ centralized_configured(env)
     /\ extraction.registration \in RegistrationOutcomes \ {200})
        => \/ extraction.local # NotTried
           \/ extraction.centralized = 200

\* ------------------------------------------------------------------- C15
\* the description component of the returned filename
C15_Desc == naming.components[Len(naming.components)]

\* does this str start with that one
C15_StartsWith(s, start) ==
    Len(s) >= Len(start) /\ SubSeq(s, 1, Len(start)) = start

\* C15: for every combination of arguments the filename is
\* [PET-{date}_]APP-{app or UNKNOWN}[_PAT-{patent}]_{DESC}.pdf, where DESC is
\* not empty, has at most 40 characters and only characters of [A-Z0-9_-].
C15_FilenameFormat ==
    naming.pc = "returned" =>
        /\ Len(naming.components) \in 2..4
        /\ naming.filename
             = join(naming.components, <<"_">>) \o <<".", "p", "d", "f">>
        /\ \E i \in 1..2 :
              /\ C15_StartsWith(naming.components[i], <<"A", "P", "P", "-">>)
              /\ Len(naming.components[i]) > 4
              /\ i = 2 <=> C15_StartsWith(naming.components[1],
                                          <<"P", "E", "T", "-">>)
              /\ Len(naming.components) = i + 2 <=>
                    C15_StartsWith(naming.components[i + 1],
                                   <<"P", "A", "T", "-">>)
              /\ Len(naming.components) \in {i + 1, i + 2}
        /\ C15_Desc # << >>
        /\ Len(C15_Desc) <= max_desc_length
        /\ Range(C15_Desc) \subseteq FilenameChars

\* ------------------------------------------------------------------- C19
\* C19: every response the proxy application sends, whichever layer made it
\* (a route, an error response, the 413 rejection, the CORS middleware),
\* carries X-Frame-Options, X-Content-Type-Options,
\* Strict-Transport-Security, Content-Security-Policy and Referrer-Policy.
C19_EveryResponseHardened ==
    exchange.pc = "sent" =>
        {"X-Frame-Options", "X-Content-Type-Options",
         "Strict-Transport-Security", "Content-Security-Policy",
         "Referrer-Policy"} \subseteq exchange.response.headers

\* ---------------------------------------------------------------------- C20
\* the field and the form of the clause of a parameter of the balanced tier
C20_Field(p) ==
    CASE p = "petition_type_code" -> "decisionPetitionTypeCode"
      [] p = "art_unit" -> "groupArtUnitNumber"
      [] p = "technology_center" -> "technologyCenter"
      [] p = "prosecution_status" -> "prosecutionStatusCodeDescriptionText"
      [] p = "entity_status" -> "businessEntityStatusCategory"

C20_Returned == building.pc = "returned"

\* the query returned holds the clause of this parameter: its field with the
\* argument, less the whitespace around it
C20_HasClause(p) ==
    \E i \in 1..Len(building.query_parts) :
        /\ building.query_parts[i].field = C20_Field(p)
        /\ building.query_parts[i].value = strip(building.args[p])

\* the query returned is the clauses joined by " AND "
C20_Joined ==
    /\ building.raised = NoError
    /\ Len(building.final_query) = 2 * Len(building.query_parts) - 1
    /\ \A i \in 1..Len(building.final_query) :
          building.final_query[i] =
              IF i % 2 = 1 THEN building.query_parts[(i + 1) \div 2] ELSE AND

\* C20 as stated: with allow_balanced_params = False a balanced-tier argument
\* that is supplied makes the call fail with the validation error that names
\* fpd_search_petitions_balanced and no query is returned; with
\* allow_balanced_params = True each such argument yields a clause and the
\* clauses are joined by " AND ".
C20_TierEnforced ==
    C20_Returned =>
        \A p \in BalancedParams :
            building.args[p] # NoStr =>
                IF building.args.allow_balanced_params
                THEN C20_HasClause(p) /\ C20_Joined
                ELSE /\ building.raised = BalancedOnlyError
                     /\ building.final_query = << >>

\* a minimal-tier argument that its validator rejects
C20_MinimalRejected ==
    \/ validate_string_param("applicant_name", building.args.applicant_name,
                             200).raised # NoError
    \/ validate_application_number(building.args.application_number).raised
          # NoError
    \/ validate_string_param("patent_number", building.args.patent_number,
                             15).raised # NoError
    \/ validate_string_param("decision_type", building.args.decision_type,
                             50).raised # NoError
    \/ validate_string_param("deciding_office", building.args.deciding_office,
                             200).raised # NoError
    \/ \E d \in {"petition_date_start", "petition_date_end",
                 "decision_date_start", "decision_date_end"} :
          validate_date_range(building.args[d]).raised # NoError

C20_MaxLength(p) == IF p \in {"prosecution_status"} THEN 200
                    ELSE IF p = "entity_status" THEN 50 ELSE 10

\* a balanced-tier argument that its validator rejects
C20_BalancedRejected ==
    \E p \in BalancedParams :
        validate_string_param(p, building.args[p], C20_MaxLength(p)).raised
            # NoError

\* C20 amended: with allow_balanced_params = False a balanced-tier argument
\* other than None makes the call fail with a validation error and no query
\* is returned, and the error is the one naming fpd_search_petitions_balanced
\* unless a minimal-tier argument is itself rejected; with
\* allow_balanced_params = True, when no argument is rejected, each
\* balanced-tier argument that is not blank yields its clause, a blank one
\* yields none, and the clauses are joined by " AND ".
C20_TierEnforcedAmended ==
    C20_Returned =>
        \A p \in BalancedParams :
            building.args[p] # NoStr =>
                IF building.args.allow_balanced_params
                THEN (~C20_MinimalRejected /\ ~C20_BalancedRejected) =>
                        /\ C20_HasClause(p) <=> strip_truthy(building.args[p])
                        /\ building.query_parts # << >> => C20_Joined
                ELSE /\ building.raised # NoError
                     /\ building.final_query = << >>
                     /\ ~C20_MinimalRejected =>
                            building.raised = BalancedOnlyError

\* an empty art_unit was refused at the minimal tier
C20_Witness ==
    /\ C20_Returned
    /\ ~building.args.allow_balanced_params
    /\ building.args.art_unit = << >>
    /\ building.raised = BalancedOnlyError

\* ---------------------------------------------------------------------- C29
\* C29: in every reachable state of a CircuitBreaker, under any interleaving
\* of concurrent calls and their completions, success_count is 0, 1 or 2 and
\* is non-zero only in HALF_OPEN; CLOSED implies failure_count below
\* failure_threshold; OPEN implies last_failure_time is set.
C29_BreakerInvariant ==
    /\ cb.success_count \in {0, 1, 2}
    /\ cb.success_count # 0 => cb.state = "HALF_OPEN"
    /\ cb.state = "CLOSED" => cb.failure_count < cb.failure_threshold
    /\ cb.state = "OPEN" => cb.last_failure_time # NoTime

\* two probes have succeeded while a call admitted earlier is still in flight
C29_Witness ==
    /\ cb.state = "HALF_OPEN"
    /\ cb.success_count = 2
    /\ cb.failure_count >= cb.failure_threshold
    /\ \E c \in Callers : call_pc[c] = "running"

\* ---------------------------------------------------------------------- C30
\* a wrapped call completes while the breaker is OPEN
C30_CompletesWhileOpen ==
    /\ cb.state = "OPEN"
    /\ \E c \in Callers : call_pc[c] = "running" /\ call_pc'[c] = "idle"

\* C30: once the breaker is OPEN, a wrapped call that was admitted before it
\* opened and completes afterwards changes neither last_failure_time nor
\* state, so the moment of the first probe is fixed by the opening.
C30_OpeningFixesProbeTime ==
    [][C30_CompletesWhileOpen =>
          /\ cb'.state = "OPEN"
          /\ cb'.last_failure_time = cb.last_failure_time]_vars

\* ---------------------------------------------------------------------- C21
\* C21: while the breaker is HALF_OPEN at most one probe is in flight: two
\* callers that arrive after the recovery timeout never both pass the state
\* check and run the wrapped function at the same time.
C21_AtMostOneProbe ==
    cb.state = "HALF_OPEN" => Cardinality(probing) <= 1

\* ---------------------------------------------------------------------- C23
\* the object behind the other breaker attribute of the FPDClient
C23_Other(name) ==
    objects[FPDClient_breakers[CHOOSE other \in BreakerNames : other # name]]

\* C23: the two breakers of an FPDClient are isolated: a call through one of
\* them, its success or its failure changes neither state, failure_count,
\* success_count nor last_failure_time of the other, in either direction.
C23_BreakersIsolated ==
    [][\A name \in BreakerNames :
          pair_pc'[name] # pair_pc[name] => C23_Other(name)' = C23_Other(name)]_vars

\* the petition API breaker is OPEN while the OCR breaker, one failure short
\* of its threshold, is still CLOSED
C23_Witness ==
    /\ breaker("uspto_circuit_breaker").state = "OPEN"
    /\ breaker("mistral_circuit_breaker").state = "CLOSED"
    /\ breaker("mistral_circuit_breaker").failure_count
          = MISTRAL_FAILURE_THRESHOLD - 1

\* ---------------------------------------------------------------------- C22
\* C22: OCR API calls are protected by the Mistral_OCR breaker: after 3
\* consecutive failed OCR calls that breaker is OPEN, and no further request
\* is sent to the OCR API.
C22_OcrBreakerOpensAfterThree ==
    ocr.failed_in_row >= MISTRAL_FAILURE_THRESHOLD =>
        /\ breaker("mistral_circuit_breaker").state = "OPEN"
        /\ ocr.pc \notin {"upload", "ocr"}

\* ---------------------------------------------------------------------- C28
\* C28: for every page_count, 0 and a missing page count included, the OCR
\* request asks for at most 50 pages, and neither the pages processed nor
\* the reported cost exceed 50 pages' worth.
C28_OcrAtMostFiftyPages ==
    /\ ocr.pc = "ocr" => ocr.pages # NoPages /\ ocr.pages <= MAX_OCR_PAGES
    /\ ocr.pc = "returned" =>
          /\ ocr.pages_processed <= MAX_OCR_PAGES
          /\ ocr.estimated_cost <= MAX_OCR_PAGES

\* ---------------------------------------------------------------------- C27
\* the keys stored in the cache under test
C27_Stored == {k \in CacheKeys : simple_cache.cache[k].present}

\* the number of stored entries is within maxsize, and the LRU order list
\* holds exactly the stored keys, each once
C27_WithinCapacityAndInOrder ==
    /\ Cardinality(C27_Stored) <= simple_cache.maxsize
    /\ Len(simple_cache.access_order) = Cardinality(C27_Stored)
    /\ Range(simple_cache.access_order) = C27_Stored

\* a set removes, if anything, entries other than the one just written, each
\* less recently used than every entry that stays; a get removes at most the
\* entry asked for
C27_EvictsLeastRecentlyUsed ==
    /\ cache_op'.op = "set" /\ cache_ops' # cache_ops =>
          /\ cache_op'.key \in C27_Stored'
          /\ \A e \in C27_Stored \ C27_Stored' :
                /\ e # cache_op'.key
                /\ Cardinality(C27_Stored \cup {cache_op'.key})
                       > simple_cache.maxsize
                /\ \A k \in C27_Stored' : last_use'[e] < last_use'[k]
    /\ cache_op'.op = "get" /\ cache_ops' # cache_ops =>
          C27_Stored \ C27_Stored' \subseteq {cache_op'.key}

\* C27: after any sequence of set, get and clear the number of stored entries
\* never exceeds maxsize; when a set pushes it over, the entry removed is the
\* least recently used one (a get hit or a set counts as a use), never the
\* entry just written; the LRU order list holds exactly the stored keys.
C27_CacheBoundedLru ==
    /\ [](C27_WithinCapacityAndInOrder)
    /\ [][C27_EvictsLeastRecentlyUsed]_vars

\* a set has just evicted the least recently used of two entries: no time
\* has passed, the key that is gone was used two operations ago and the key
\* that stays one operation ago
C27_Witness ==
    /\ cache_op.op = "set"
    /\ now = 0
    /\ simple_cache.maxsize = 2
    /\ last_use[cache_op.key] = cache_ops
    /\ \E e \in CacheKeys \ C27_Stored, k \in C27_Stored \ {cache_op.key} :
          /\ last_use[e] = cache_ops - 2
          /\ last_use[k] = cache_ops - 1

\* ---------------------------------------------------------------- C26
\* what a Python value is, whatever the order its dicts were filled in
RECURSIVE C26_Logical(_)
C26_Logical(value) ==
    IF value.type = "dict"
    THEN [type |-> "dict",
          v |-> {<<value.v[i][1], C26_Logical(value.v[i][2])>> : i \in DOMAIN value.v}]
    ELSE IF value.type = "list"
    THEN [type |-> "list", v |-> [i \in DOMAIN value.v |-> C26_Logical(value.v[i])]]
    ELSE value

C26_SameRequest(a, b) ==
    /\ a.method = b.method
    /\ a.endpoint = b.endpoint
    /\ C26_Logical(PyDict(a.kwargs)) = C26_Logical(PyDict(b.kwargs))

\* C26: a get finds the entry a set stored exactly when the two calls have
\* the same method, the same endpoint and the same keyword arguments, in
\* whatever order the keyword arguments and the keys of nested dicts were
\* given; a differing method, endpoint or argument value is a miss.
C26_KeyIsTheLogicalRequest ==
    keyed.pc = "got" =>
        (keyed.hit <=> C26_SameRequest(keyed.first, keyed.second))

\* a hit for keyword arguments and a nested dict given in another order
C26_Witness ==
    /\ keyed.pc = "got"
    /\ keyed.hit
    /\ Len(keyed.first.kwargs) = 2
    /\ keyed.second.kwargs[1][1] = keyed.first.kwargs[2][1]
    /\ \E i, j \in 1..2 :
           /\ keyed.first.kwargs[i][1] = "json"
           /\ keyed.second.kwargs[j][1] = "json"
           /\ Len(keyed.first.kwargs[i][2].v) = 2
           /\ keyed.first.kwargs[i][2].v # keyed.second.kwargs[j][2].v

\* ---------------------------------------------------------------- C25
\* the requests past the semaphore: in an attempt or in a backoff sleep
C25_PastTheGate == {r \in GateRequests : gate[r].pc \in {"attempt", "sleep"}}

\* a request that queues does nothing but wait until its first attempt, and
\* a call ends before its first attempt only because the breaker rejects it
C25_WaitsAndIsNotTurnedAway ==
    \A r \in GateRequests :
        /\ gate[r].pc = "waiting" =>
               /\ gate'[r].pc \in {"waiting", "attempt"}
               /\ gate'[r].result = NoGateResult
        /\ gate[r].pc = "idle" /\ gate'[r].pc = "done" =>
               call_rejects(gate_client.uspto_circuit_breaker, now)
        /\ gate[r].pc = "idle" /\ gate'[r].pc = "waiting" =>
               Cardinality(C25_PastTheGate) + Cardinality(uspto_semaphore.woken)
                   = MaxPermits

\* C25: never more requests past the semaphore than it has permits; a
\* request beyond that number waits, is not given a result while it waits,
\* and gets to its first attempt.
C25_AdmissionControl ==
    /\ [](Cardinality(C25_PastTheGate) <= MaxPermits)
    /\ [][C25_WaitsAndIsNotTurnedAway]_vars
    /\ \A r \in GateRequests :
           (gate[r].pc = "waiting") ~> (gate[r].pc = "attempt")

\* a request that had to wait for the one before it was answered
C25_Witness ==
    \E r, q \in GateRequests :
        /\ gate[r].pc = "done"
        /\ gate[r].waited
        /\ gate[r].ended = "answered"
        /\ gate[q].pc = "done"
        /\ ~gate[q].waited

\* ---------------------------------------------------------------- C24
C24_Structured(r) ==
    /\ gate[r].result.error = "truthy"
    /\ gate[r].result.status_code >= 400
    /\ gate[r].result.success = "False"
    /\ gate[r].result.request_id = r

\* the calls that ended in a failure: refused by the API, out of retries,
\* or rejected by the breaker with nothing cached
C24_Failed(r) ==
    /\ gate[r].pc = "done"
    /\ \/ gate[r].ended \in {"refused", "exhausted"}
       \/ gate[r].ended = "rejected" /\ ~gate[r].result.cached

C24_ReturnsDictAndFreesPermit ==
    /\ \A r \in GateRequests :
           /\ gate[r].pc = "done" => gate[r].result # NoGateResult
           /\ C24_Failed(r) => C24_Structured(r)
    /\ uspto_semaphore.value + Cardinality(C25_PastTheGate)
           + Cardinality(uspto_semaphore.woken) = MaxPermits
    /\ (\A r \in GateRequests : gate[r].pc \in {"idle", "done"}) =>
           uspto_semaphore.value = MaxPermits

====
